---------------------------- MODULE Spec2Model ----------------------------
(***************************************************************************)
(* A model of the libmseed routines bundled with mseed2sac:                *)
(*   - the streaming record reader ms_readmsr (libmseed/fileutils.c),      *)
(*   - the trace assembler (libmseed/traceutils.c),                        *)
(*   - the record packer msr_pack (libmseed/pack.c).                       *)
(* Each part has its own specification over the shared variables:         *)
(* SpecReader, SpecTrace (and SpecGroup, for groups the caller has built   *)
(* Trace by Trace, SpecLink for the chain of Trace pointers), SpecPack,    *)
(* SpecDecode for the record decoder msr_unpack (libmseed/unpack.c) with   *)
(* its environment options, SpecChain for the walks along the blockette    *)
(* chain of a record, SpecZip for the streaming ZIP writer                 *)
(* (src/fdzipstream.c), SpecArchive for mseed2sac writing an archive,      *)
(* SpecSession for reader sessions that pass record length 0 and           *)
(* SpecProbe for reads of streams of unknown record length; the parts a    *)
(* specification does not use keep their initial values.                   *)
(***************************************************************************)
EXTENDS Integers, Sequences, FiniteSets, TLC

VARIABLES rd, io, grp, tr, pk, dec, zs, zc, ch, lk

vars == <<rd, io, grp, tr, pk, dec, zs, zc, ch, lk>>

(***************************************************************************)
(* Program constants.                                                      *)
(***************************************************************************)
MINRECLEN == 256
MAXRECLEN == 1048576
NEXTHDRLEN == 48
HPTMODULUS == 1000000
AUTODETEXP == 8
AUTODETMAX == 8192
PACKIDLEN == 10
CHKSUMLEN == 8

(***************************************************************************)
(* Bounds of the model.                                                    *)
(***************************************************************************)
MaxItems == 3
MaxBlocks == 2

(***************************************************************************)
(* Small helpers.                                                          *)
(***************************************************************************)
Min(a, b) == IF a < b THEN a ELSE b
Max(a, b) == IF a < b THEN b ELSE a
Abs(a) == IF a < 0 THEN 0 - a ELSE a

\* F applied to the value of e (e is evaluated once, before F).
Once(e, F(_)) == CHOOSE r \in { F(v) : v \in {e} } : TRUE

RECURSIVE Pow2(_)
Pow2(e) == IF e = 0 THEN 1 ELSE 2 * Pow2(e - 1)

(***************************************************************************)
(* PART 1.  The streaming reader, ms_readmsr().                            *)
(*                                                                         *)
(* An input file is a sequence of items, each a run of bytes:              *)
(*   rec   : a data record whose first 48 bytes are a valid fixed header;  *)
(*           b is the record length its Blockette 1000 declares, 0 when    *)
(*           the record carries no Blockette 1000;                         *)
(*   junk  : bytes that are no data record (no data indicator);            *)
(*   pid   : the pack identifier (10 bytes) and first info section of a    *)
(*           "PED" packed file, d the size of the data block that follows; *)
(*   pinfo : a checksum (8 bytes) and info section between data blocks;    *)
(*   chk   : the checksum that ends a packed file.                         *)
(* Bytes inside an item (a record's body) are no valid header.             *)
(***************************************************************************)
PEDINFOLEN == 8

RecItem(len, b) == [k |-> "rec", len |-> len, b |-> b, d |-> 0]
JunkItem(len) == [k |-> "junk", len |-> len, b |-> 0, d |-> 0]
PidItem(d) == [k |-> "pid", len |-> PACKIDLEN + PEDINFOLEN, b |-> 0, d |-> d]
PinfoItem(d) == [k |-> "pinfo", len |-> CHKSUMLEN + PEDINFOLEN, b |-> 0, d |-> d]
ChkItem == [k |-> "chk", len |-> CHKSUMLEN, b |-> 0, d |-> 0]

PlainItems ==
  { RecItem(256, 256), RecItem(512, 512), RecItem(256, 0), JunkItem(256),
    JunkItem(100) }

\* Files that are a plain run of records and other chunks.
PlainFiles == UNION { [1..n -> PlainItems] : n \in 0..MaxItems }

\* The data blocks of a packed file: one record each, an info section
\* between two blocks, and possibly the closing checksum.
RECURSIVE PackBlocks(_)
PackBlocks(n) ==
  LET recs == { <<RecItem(256, 256)>>, <<RecItem(256, 0)>>,
                <<RecItem(512, 512)>> }
  IN  IF n = 0 THEN {}
      ELSE recs \cup { r \o <<ChkItem>> : r \in recs }
           \cup { r \o <<PinfoItem(d)>> \o rest :
                    r \in recs, d \in {256, 512}, rest \in PackBlocks(n - 1) }

PackFiles == { <<PidItem(d)>> \o b : d \in {256, 512}, b \in PackBlocks(MaxBlocks) }

Files == PlainFiles \cup PackFiles

RECURSIVE FileSize(_)
FileSize(f) == IF f = <<>> THEN 0 ELSE Head(f).len + FileSize(Tail(f))

ItemStart(f, i) == FileSize(SubSeq(f, 1, i - 1))

\* What the bytes at offset off look like: the item that starts there, or
\* junk when off is inside an item or past the end.
ItemAt(f, off) ==
  IF \E i \in 1..Len(f) : ItemStart(f, i) = off
    THEN f[CHOOSE i \in 1..Len(f) : ItemStart(f, i) = off]
    ELSE JunkItem(0)

\* MS_ISVALIDHEADER and MS_ISDATAINDICATOR on the bytes at off.
IsValidHeader(f, off) == ItemAt(f, off).k = "rec"
IsDataIndicator(f, off) == ItemAt(f, off).k = "rec"


(***************************************************************************)
(* The reader's state: the function's static variables, the caller's       *)
(* record pointer, and the open stream (its content and read position).    *)
(* fp and rawrec are "NULL" or a live resource ("open", "alloc"); a        *)
(* pointer that was released and not cleared reads "closed" / "freed".     *)
(* dblclose, dblfree and leaked record a second fclose() of one handle, a  *)
(* second free() of one buffer, and a buffer overwritten without free().   *)
(* msrreclen is the reclen of the caller's record and msrblkt the record   *)
(* length that the Blockette 1000 kept in its blockette chain declares (0  *)
(* without one).                                                           *)
(***************************************************************************)
ReaderInit ==
  [ fp |-> "NULL", rawrec |-> "NULL", filename |-> "", autodet |-> 1,
    readlen |-> MINRECLEN, packinfolen |-> 0, packinfooffset |-> 0,
    filepos |-> 0, recordcount |-> 0,
    msr |-> "NULL", msrreclen |-> 0, msrblkt |-> 0,
    file |-> <<>>, spos |-> 0,
    dblclose |-> FALSE, dblfree |-> FALSE, leaked |-> FALSE ]

\* fclose (fp), the pointer is left as it was
Fclose(s) ==
  [s EXCEPT !.dblclose = @ \/ s.fp = "closed",
            !.fp = IF s.fp = "NULL" THEN "NULL" ELSE "closed",
            !.file = <<>>, !.spos = 0]

\* free (rawrec), the pointer is left as it was
Free(s) ==
  [s EXCEPT !.dblfree = @ \/ s.rawrec = "freed",
            !.rawrec = IF s.rawrec = "NULL" THEN "NULL" ELSE "freed"]

\* msr_free (ppmsr)
MsrFree(s) == [s EXCEPT !.msr = "NULL", !.msrreclen = 0, !.msrblkt = 0]

\* if ( fp ) { fclose (fp); fp = NULL; }  msr_free (ppmsr);
\* free (rawrec); rawrec = NULL;
CloseAndFree(s) ==
  LET s1 == IF s.fp # "NULL" THEN [Fclose(s) EXCEPT !.fp = "NULL"] ELSE s
  IN  [Free(MsrFree(s1)) EXCEPT !.rawrec = "NULL"]

\* A cleanup that forgets to reset the record-length detection state.
CleanupNoReset(s) ==
  LET s1 == IF s.fp # "NULL" THEN Fclose(MsrFree(s)) ELSE MsrFree(s)
      s2 == IF s1.rawrec # "NULL" THEN Free(s1) ELSE s1
  IN  [s2 EXCEPT !.fp = "NULL", !.rawrec = "NULL",
                 !.packinfolen = 0, !.packinfooffset = 0,
                 !.filepos = 0, !.recordcount = 0,
                 !.file = <<>>, !.spos = 0]

\* The cleanup branch of ms_readmsr (msfile == NULL).
Cleanup(s) ==
  LET s1 == IF s.fp # "NULL" THEN Fclose(MsrFree(s)) ELSE MsrFree(s)
      s2 == IF s1.rawrec # "NULL" THEN Free(s1) ELSE s1
  IN  [s2 EXCEPT !.fp = "NULL", !.rawrec = "NULL", !.autodet = 1,
                 !.readlen = MINRECLEN, !.packinfolen = 0,
                 !.packinfooffset = 0, !.filepos = 0, !.recordcount = 0,
                 !.file = <<>>, !.spos = 0]

\* myfread (buf, 1, n, fp): the bytes obtained, whether feof() is set
\* afterwards, and the stream advanced.  ioerr: the read fails with an
\* error (ferror) instead.
Fread(s, n, ioerr) ==
  LET avail == Max(FileSize(s.file) - s.spos, 0)
      got == IF ioerr \/ s.fp # "open" THEN 0 ELSE Min(n, avail)
  IN  [got |-> got, eof |-> (~ioerr) /\ got < n,
       s |-> [s EXCEPT !.spos = @ + got]]

\* ateof (stream): getc and ungetc.
AtEof(s, ioerr) == (~ioerr) /\ s.spos >= FileSize(s.file)

\* readpackinfo (8, infolen, 8, fp).  g is what sscanf leaves in datasize
\* when the bytes read are no info section.
ReadPackInfo(s, ioerr, g) ==
  LET s1 == [s EXCEPT !.spos = @ + CHKSUMLEN]
      r == Fread(s1, s.packinfolen, ioerr)
      it == ItemAt(s.file, s.spos)
  IN  IF AtEof(s1, ioerr) THEN [size |-> 0, s |-> s1]
      ELSE IF r.got < s.packinfolen THEN [size |-> 0 - 1, s |-> r.s]
      ELSE [size |-> IF it.k = "pinfo" THEN it.d ELSE g, s |-> r.s]

\* ms_find_reclen (rawrec, recbuflen, fp); the buffer holds the bytes that
\* start at file offset bufoff.  A Blockette 1000, when present, lies in
\* the first MINRECLEN bytes.
FindReclen(s, bufoff, recbuflen, ioerr) ==
  LET it == ItemAt(s.file, bufoff)
      r == Fread(s, NEXTHDRLEN, ioerr)
  IN  IF ~IsValidHeader(s.file, bufoff) THEN [det |-> 0 - 1, s |-> s]
      ELSE IF it.b # 0 THEN [det |-> it.b, s |-> s]
      ELSE IF r.got < NEXTHDRLEN
             THEN IF ~r.eof THEN [det |-> 0 - 1, s |-> r.s]
                  ELSE [det |-> recbuflen, s |-> r.s]
      ELSE IF IsValidHeader(s.file, s.spos) THEN [det |-> recbuflen, s |-> s]
      ELSE [det |-> 0, s |-> s]

\* msr_unpack (rawrec, reclen, ppmsr, ...): NULL for a length out of range
\* or a record without data indicator; otherwise the record, whose reclen
\* is the length passed in (a differing Blockette 1000 length is reported
\* and overwritten).
MsrUnpack(s, bufoff, reclen) ==
  IF reclen < MINRECLEN \/ reclen > MAXRECLEN
    THEN [ret |-> "MS_GENERROR", s |-> MsrFree(s)]
  ELSE IF ~IsDataIndicator(s.file, bufoff)
    THEN [ret |-> "MS_NOTSEED", s |-> MsrFree(s)]
  ELSE [ret |-> "MS_NOERROR",
        s |-> [s EXCEPT !.msr = "rec", !.msrreclen = reclen,
                        !.msrblkt = ItemAt(s.file, bufoff).b]]

\* The result of a call: the state, the return code, and for a return
\* caused by a short read whether it was the end of the file (eof) and how
\* many bytes that read still got.
Result(s, ret) == [s |-> s, ret |-> ret, eof |-> FALSE, got |-> 0]

\* A short-read return that reports the end of the file as an error.
ShortReadAsError(s, r) ==
  LET code == IF s.recordcount = 0 THEN "MS_NOTSEED" ELSE "MS_GENERROR"
  IN  [s |-> CloseAndFree(r.s), ret |-> code, eof |-> r.eof, got |-> r.got]

\* The short-read return of ms_readmsr: EndOfFile or GenericError,
\* NotSeed when no record was returned yet; the session is torn down.
ShortRead(s, r) ==
  LET code == IF s.recordcount = 0 THEN "MS_NOTSEED"
              ELSE IF ~r.eof THEN "MS_GENERROR" ELSE "MS_ENDOFFILE"
  IN  [s |-> CloseAndFree(r.s), ret |-> code, eof |-> r.eof, got |-> r.got]


(***************************************************************************)
(* The autodetection loop of ms_readmsr (while detsize <= 0 && readlen <=  *)
(* 8192).  c holds the state s and the locals detsize, prevreadlen,        *)
(* autodetexp; bufoff is the file offset of the bytes at rawrec[0]; out is *)
(* "" while the function has not returned; read counts the bytes that the  *)
(* loop has taken from the stream.                                         *)
(***************************************************************************)
\* Loop body, first part: the buffer is allocated and, at a pack info
\* offset, the info section is read.  out # "" when the function returned.
DetectInfo(c, ioerr, g) ==
  LET s0 == [c.s EXCEPT !.rawrec = "alloc"]
      pi == ReadPackInfo(s0, ioerr, g)
  IN  IF ~(s0.packinfolen # 0 /\ s0.filepos = s0.packinfooffset)
        THEN [c EXCEPT !.s = s0]
      ELSE IF pi.size <= 0
        THEN [c EXCEPT !.s = CloseAndFree(pi.s),
                       !.out = IF pi.size = 0 THEN "MS_ENDOFFILE"
                               ELSE "MS_GENERROR",
                       !.eof = (pi.size = 0)]
      ELSE [c EXCEPT !.s = [pi.s EXCEPT !.filepos = pi.s.spos,
                                        !.packinfooffset = pi.s.spos + pi.size]]

\* Loop body, second part: readlen - prevreadlen bytes are read behind the
\* bytes kept in the buffer.
DetectRead(c, ioerr) ==
  LET want == c.s.readlen - c.prevreadlen
      r == Fread(c.s, want, ioerr)
      sr == ShortRead(c.s, r)
  IN  IF r.got < want
        THEN [c EXCEPT !.s = sr.s, !.out = sr.ret, !.eof = sr.eof,
                       !.got = sr.got + c.prevreadlen,
                       !.read = @ + r.got]
      ELSE [c EXCEPT !.s = [r.s EXCEPT !.filepos = r.s.spos],
                     !.read = @ + r.got,
                     !.bufoff = IF c.prevreadlen = 0 THEN c.s.spos ELSE @]

\* A loop body that skips a chunk that is no data record whether
\* skipnotdata is set or not.
DetectSizeSkipsAlways(c, skipnotdata, ioerr) ==
  LET fr == FindReclen(c.s, c.bufoff, c.s.readlen, ioerr)
      pid == ItemAt(c.s.file, c.bufoff)
      s3 == IF pid.k = "pid" /\ c.s.filepos = MINRECLEN /\ fr.det = 0 - 1
              THEN [fr.s EXCEPT !.packinfolen = PEDINFOLEN,
                                !.packinfooffset = PACKIDLEN + PEDINFOLEN
                                                   + pid.d]
              ELSE fr.s
  IN  IF c.s.packinfolen # 0 /\ c.s.packinfooffset = c.s.filepos
        THEN [c EXCEPT !.detsize = c.s.readlen]
      ELSE IF fr.det > 0
        THEN [c EXCEPT !.s = fr.s, !.detsize = fr.det]
      ELSE IF fr.det = 0 - 1 /\ s3.packinfolen = 0
        THEN [c EXCEPT !.s = s3, !.detsize = fr.det]
      ELSE IF s3.filepos = MINRECLEN /\ s3.packinfolen # 0
        THEN [c EXCEPT !.s = s3, !.detsize = fr.det,
                       !.bufoff = @ + s3.packinfolen + PACKIDLEN,
                       !.prevreadlen = s3.readlen - (s3.packinfolen + PACKIDLEN)]
      ELSE [c EXCEPT !.s = [s3 EXCEPT !.readlen = Pow2(c.autodetexp + 1)],
                     !.detsize = fr.det,
                     !.prevreadlen = s3.readlen,
                     !.autodetexp = @ + 1]

\* Loop body, third part: the record length is taken from the pack info
\* or searched by ms_find_reclen, a pack file is recognised, and the read
\* length is expanded.
DetectSize(c, skipnotdata, ioerr) ==
  LET fr == FindReclen(c.s, c.bufoff, c.s.readlen, ioerr)
      pid == ItemAt(c.s.file, c.bufoff)
      s3 == IF pid.k = "pid" /\ c.s.filepos = MINRECLEN /\ fr.det = 0 - 1
              THEN [fr.s EXCEPT !.packinfolen = PEDINFOLEN,
                                !.packinfooffset = PACKIDLEN + PEDINFOLEN
                                                   + pid.d]
              ELSE fr.s
  IN  IF c.s.packinfolen # 0 /\ c.s.packinfooffset = c.s.filepos
        THEN [c EXCEPT !.detsize = c.s.readlen]
      ELSE IF fr.det > 0
        THEN [c EXCEPT !.s = fr.s, !.detsize = fr.det]
      ELSE IF fr.det = 0 - 1 /\ skipnotdata /\ s3.packinfolen = 0
        THEN [c EXCEPT !.s = s3, !.detsize = fr.det]
      ELSE IF s3.filepos = MINRECLEN /\ s3.packinfolen # 0
        THEN [c EXCEPT !.s = s3, !.detsize = fr.det,
                       !.bufoff = @ + s3.packinfolen + PACKIDLEN,
                       !.prevreadlen = s3.readlen - (s3.packinfolen + PACKIDLEN)]
      ELSE [c EXCEPT !.s = [s3 EXCEPT !.readlen = Pow2(c.autodetexp + 1)],
                     !.detsize = fr.det,
                     !.prevreadlen = s3.readlen,
                     !.autodetexp = @ + 1]

\* One pass through the body of the loop.
DetectStep(c, skipnotdata, ioerr, g) ==
  Once(DetectInfo(c, ioerr, g), LAMBDA c1 :
    IF c1.out # "" THEN c1
    ELSE Once(DetectRead(c1, ioerr), LAMBDA c2 :
           IF c2.out # "" THEN c2
           ELSE DetectSize(c2, skipnotdata, ioerr)))

RECURSIVE DetectLoop(_, _, _, _)
DetectLoop(c, skipnotdata, ioerr, g) ==
  IF c.out # "" \/ ~(c.detsize <= 0 /\ c.s.readlen <= AUTODETMAX) THEN c
  ELSE Once(DetectStep(c, skipnotdata, ioerr, g),
            LAMBDA n : DetectLoop(n, skipnotdata, ioerr, g))

\* The autodetection branch of ms_readmsr, from "detsize = 0" to its
\* "return MS_NOERROR".
AfterDetect(c, ioerr) ==
  LET s1 == [c.s EXCEPT !.autodet = 0, !.rawrec = "alloc"]
      rest == c.detsize - s1.readlen
      r == Fread(s1, rest, ioerr)
      s2 == IF rest > 0 THEN [r.s EXCEPT !.filepos = r.s.spos] ELSE s1
      s3 == MsrFree([s2 EXCEPT !.readlen = c.detsize])
      u == MsrUnpack(s3, c.bufoff, s3.readlen)
  IN  IF c.out # "" THEN [s |-> c.s, ret |-> c.out, eof |-> c.eof, got |-> c.got]
      ELSE IF c.detsize <= 0 THEN Result(CloseAndFree(c.s), "MS_NOTSEED")
      ELSE IF c.detsize < MINRECLEN \/ c.detsize > MAXRECLEN
        THEN Result(CloseAndFree([c.s EXCEPT !.autodet = 0]), "MS_OUTOFRANGE")
      ELSE IF rest > 0 /\ r.got < rest
        THEN LET sr == ShortRead(s1, r)
             IN  [sr EXCEPT !.got = @ + s1.readlen]
      ELSE IF u.ret # "MS_NOERROR" THEN Result(CloseAndFree(u.s), u.ret)
      ELSE Result([u.s EXCEPT !.msrreclen = IF @ = 0 THEN s3.readlen ELSE @,
                              !.recordcount = @ + 1],
                  "MS_NOERROR")

\* The locals at the start of the autodetection branch
DetectStart(s) ==
  [s |-> s, detsize |-> 0, prevreadlen |-> 0, autodetexp |-> AUTODETEXP,
   bufoff |-> s.spos, out |-> "", eof |-> FALSE, got |-> 0, read |-> 0]

Autodetect(s, skipnotdata, ioerr, g) ==
  Once(DetectLoop(DetectStart(s), skipnotdata, ioerr, g),
       LAMBDA c : AfterDetect(c, ioerr))

\* The loop "Read subsequent records" of ms_readmsr and what follows it.
RECURSIVE ReadNext(_, _, _, _)
ReadNext(s, skipnotdata, ioerr, g) ==
  LET needinfo == s.packinfolen # 0 /\ s.filepos = s.packinfooffset
      pi == ReadPackInfo(s, ioerr, g)
      s1 == IF needinfo
              THEN [pi.s EXCEPT !.filepos = pi.s.spos,
                                !.packinfooffset = pi.s.spos + pi.size]
              ELSE s
      bo == s1.spos
      r == Fread(s1, s1.readlen, ioerr)
      s2 == [r.s EXCEPT !.filepos = r.s.spos]
      u == MsrUnpack(s2, bo, s2.readlen)
  IN  IF needinfo /\ pi.size = 0
        THEN [s |-> CloseAndFree(pi.s), ret |-> "MS_ENDOFFILE",
              eof |-> TRUE, got |-> 0]
      ELSE IF r.got < s1.readlen THEN ShortRead(s1, r)
      ELSE IF skipnotdata /\ ~IsDataIndicator(s2.file, bo)
        THEN Once(s2, LAMBDA v : ReadNext(v, skipnotdata, ioerr, g))
      ELSE IF u.ret # "MS_NOERROR" THEN Result(CloseAndFree(u.s), u.ret)
      ELSE IF u.s.msrreclen = 0
        THEN Result([u.s EXCEPT !.msrreclen = s2.readlen,
                                !.recordcount = @ + 1], "MS_NOERROR")
      ELSE IF u.s.msrreclen # s2.readlen
        THEN Result(u.s, "MS_WRONGLENGTH")
      ELSE Result([u.s EXCEPT !.recordcount = @ + 1], "MS_NOERROR")

\* ms_readmsr, "Sanity check: track if we are reading the same file" and
\* "Open the file if needed": a handle open on another file is closed and
\* the statics reset; opened is what fopen() yields when it is called.
\* fp stays NULL when the file cannot be opened.
MsOpen(s, msfile, opened) ==
  LET s1 == IF s.fp # "NULL" /\ msfile # s.filename
              THEN [Fclose(s) EXCEPT !.fp = "NULL", !.autodet = 1,
                       !.readlen = MINRECLEN, !.packinfolen = 0,
                       !.packinfooffset = 0, !.filepos = 0,
                       !.recordcount = 0]
              ELSE s
  IN  IF s1.fp = "NULL"
        THEN [s1 EXCEPT !.filename = msfile,
                        !.fp = IF opened.ok THEN "open" ELSE "NULL",
                        !.file = opened.file,
                        !.spos = 0]
        ELSE s1

\* ms_readmsr, "Force the record length if specified" and the start of
\* "Autodetect the record length" (reclen < 0).
MsSetReclen(s, reclen) ==
  LET s3 == IF reclen > 0 /\ s.autodet = 1
              THEN [s EXCEPT !.readlen = reclen, !.autodet = 0,
                             !.leaked = @ \/ s.rawrec = "alloc",
                             !.rawrec = "alloc"]
              ELSE s
  IN  IF reclen < 0 THEN [s3 EXCEPT !.readlen = Pow2(AUTODETEXP)] ELSE s3

\* A reader that treats reclen 0 like a negative reclen: it detects the
\* length of every record.
MsReadmsrDetectsAgain(s, ppmsrnull, msfile, reclen, skipnotdata, ioerr, g, opened) ==
  IF ppmsrnull THEN Result(s, "MS_GENERROR")
  ELSE Once(MsOpen(s, msfile, opened), LAMBDA s2 :
    IF s2.fp = "NULL" THEN Result(MsrFree(s2), "MS_GENERROR")
    ELSE Once(MsSetReclen(s2, reclen), LAMBDA s4 :
           IF s4.autodet = 1 \/ reclen <= 0
             THEN Autodetect([s4 EXCEPT !.readlen = Pow2(AUTODETEXP)],
                             skipnotdata, ioerr, g)
             ELSE ReadNext(s4, skipnotdata, ioerr, g)))

(***************************************************************************)
(* ms_readmsr (ppmsr, msfile, reclen, ..., skipnotdata, ...) for a file    *)
(* name msfile that is not NULL.                                           *)
(***************************************************************************)
MsReadmsr(s, ppmsrnull, msfile, reclen, skipnotdata, ioerr, g, opened) ==
  IF ppmsrnull THEN Result(s, "MS_GENERROR")
  ELSE Once(MsOpen(s, msfile, opened), LAMBDA s2 :
    IF s2.fp = "NULL" THEN Result(MsrFree(s2), "MS_GENERROR")
    ELSE Once(MsSetReclen(s2, reclen), LAMBDA s4 :
           IF s4.autodet = 1 \/ reclen < 0
             THEN Autodetect(s4, skipnotdata, ioerr, g)
             ELSE ReadNext(s4, skipnotdata, ioerr, g)))


(***************************************************************************)
(* The reader's specification.  io records the last call: which call it    *)
(* was, its return code, for a short-read return whether the read hit the  *)
(* end of the file and how many bytes of a record it still got, the        *)
(* number of records the session had returned before, and the handle and   *)
(* buffer the reader held when the call was made.  For the calls of a      *)
(* session that passes reclen 0 to every call (sess): whether the call     *)
(* went into the detection of the record length (detected), the length     *)
(* that the session's first record was found to have (locked, 0 before),   *)
(* and the bytes by which the call moved the read position (adv).  For a   *)
(* call on a stream of unknown record length: its skipnotdata flag (skip)  *)
(* and the bytes that the detection loop took from the stream (probed).    *)
(***************************************************************************)
FileNames == {"a", "b"}
RecLens == {0 - 1, 0, 256, 512}
GarbageSizes == {0 - 1, 0, 256}
NoFile == [ok |-> FALSE, file |-> <<>>]
Opened(f) == [ok |-> TRUE, file |-> f]
AnyFile == {Opened(f) : f \in Files} \cup {NoFile}
OtherFiles == {Opened(f) : f \in {h \in Files : Len(h) <= 1}} \cup {NoFile}

IoInit ==
  [ call |-> "none", ret |-> "none", nullpp |-> FALSE, eof |-> FALSE,
    got |-> 0, recs |-> 0, pfp |-> "NULL", prawrec |-> "NULL",
    pret |-> "none", sess |-> FALSE, detected |-> FALSE, locked |-> 0,
    adv |-> 0, skip |-> FALSE, probed |-> 0 ]

Observe(res, call, nullpp, recs) ==
  [ call |-> call, ret |-> res.ret, nullpp |-> nullpp, eof |-> res.eof,
    got |-> res.got, recs |-> recs, pfp |-> rd.fp, prawrec |-> rd.rawrec,
    pret |-> io.ret, sess |-> FALSE, detected |-> FALSE, locked |-> 0,
    adv |-> 0, skip |-> FALSE, probed |-> 0 ]

\* The caller reads on while the reader returns NoError
\* (mseed2sac.c: while ( (retcode = ms_readmsr (...)) == MS_NOERROR )).
MayRead == io.ret \in {"none", "MS_NOERROR"}

\* A read call that has to open its file.
ReadOpen ==
  /\ MayRead
  /\ rd.fp = "NULL"
  /\ \E msfile \in FileNames, reclen \in RecLens, skipnotdata \in BOOLEAN,
        ioerr \in BOOLEAN, opened \in AnyFile :
       \E res \in {MsReadmsr(rd, FALSE, msfile, reclen, skipnotdata, ioerr,
                              0, opened)} :
           /\ rd' = res.s
           /\ io' = Observe(res, "read", FALSE, 0)
  /\ UNCHANGED <<grp, tr, pk, dec, zs, zc, ch, lk>>

\* A read call on the file that is open.
ReadMore ==
  /\ MayRead
  /\ rd.fp = "open"
  /\ \E reclen \in RecLens, skipnotdata \in BOOLEAN, ioerr \in BOOLEAN,
        g \in GarbageSizes :
       \E res \in {MsReadmsr(rd, FALSE, rd.filename, reclen, skipnotdata,
                              ioerr, g, NoFile)} :
           /\ rd' = res.s
           /\ io' = Observe(res, "read", FALSE, rd.recordcount)
  /\ UNCHANGED <<grp, tr, pk, dec, zs, zc, ch, lk>>

\* A read call that names another file while one is open.
ReadOther ==
  /\ MayRead
  /\ rd.fp = "open"
  /\ \E msfile \in FileNames \ {rd.filename}, reclen \in RecLens,
        skipnotdata \in BOOLEAN, opened \in OtherFiles :
       \E res \in {MsReadmsr(rd, FALSE, msfile, reclen, skipnotdata, FALSE,
                              0, opened)} :
           /\ rd' = res.s
           /\ io' = Observe(res, "read", FALSE, 0)
  /\ UNCHANGED <<grp, tr, pk, dec, zs, zc, ch, lk>>

\* A read call without a record pointer (ppmsr == NULL).
ReadNullPpmsr ==
  /\ MayRead
  /\ \E res \in {MsReadmsr(rd, TRUE, "a", 0, FALSE, FALSE, 0, NoFile)} :
         /\ rd' = res.s
         /\ io' = Observe(res, "read", TRUE, rd.recordcount)
  /\ UNCHANGED <<grp, tr, pk, dec, zs, zc, ch, lk>>

\* The cleanup call, ms_readmsr (&msr, NULL, ...).
CleanupCall ==
  /\ rd' = Cleanup(rd)
  /\ io' = Observe(Result(rd, "MS_NOERROR"), "cleanup", FALSE,
                   rd.recordcount)
  /\ UNCHANGED <<grp, tr, pk, dec, zs, zc, ch, lk>>

(***************************************************************************)
(* The record decoder msr_unpack() and its options (unpack.c).  The        *)
(* options are environment variables; they are read into the static        *)
(* variables headerbyteorder, databyteorder, encodingformat and            *)
(* encodingfallback, each -2 while it has not been read.  A byte order     *)
(* variable is "unset" or its text; an encoding variable is unset or the   *)
(* number strtol makes of its text.  Encodings are the numbers of the      *)
(* SEED format (-1: none).                                                 *)
(***************************************************************************)
Unset == [set |-> FALSE, val |-> 0]
EnvNum(n) == [set |-> TRUE, val |-> n]

NoEnv ==
  [ UNPACK_HEADER_BYTEORDER |-> "unset", UNPACK_DATA_BYTEORDER |-> "unset",
    UNPACK_DATA_FORMAT |-> Unset, UNPACK_DATA_FORMAT_FALLBACK |-> Unset ]

\* The encodings msr_unpack_data decodes: ASCII, INT16, INT32, FLOAT32,
\* FLOAT64, STEIM1, STEIM2
DecodableEncodings == {0, 1, 3, 4, 5, 10, 11}

\* The decoder's static variables, the environment of the process, and
\* what the caller has seen: the number of calls made, the result of the
\* last call ("NULL" or "msr"), the record it delivered and whether it
\* was check_environment that failed; firstret is the result of the first
\* call.
DecInit(env) ==
  [ env |-> env,
    headerbyteorder |-> 0 - 2, databyteorder |-> 0 - 2,
    encodingformat |-> 0 - 2, encodingfallback |-> 0 - 2,
    calls |-> 0, ret |-> "none", firstret |-> "none", enverr |-> FALSE,
    msr |-> [encoding |-> 0 - 1, byteorder |-> 0 - 1, numsamples |-> 0] ]

\* check_environment, one byte order variable: cur is the static variable,
\* v the environment variable
ByteorderEnv(cur, v) ==
  IF cur # 0 - 2 THEN [val |-> cur, err |-> FALSE]
  ELSE IF v = "unset" THEN [val |-> 0 - 1, err |-> FALSE]
  ELSE IF v # "0" /\ v # "1" THEN [val |-> cur, err |-> TRUE]
  ELSE IF v = "0" THEN [val |-> 0, err |-> FALSE]
  ELSE [val |-> 1, err |-> FALSE]

\* check_environment, one encoding variable: the static variable is
\* assigned the number, then the number is checked; unset is the value
\* for a variable that is not set
EncodingEnv(cur, v, unset) ==
  IF cur # 0 - 2 THEN [val |-> cur, err |-> FALSE]
  ELSE IF ~v.set THEN [val |-> unset, err |-> FALSE]
  ELSE IF v.val < 0 \/ v.val > 33 THEN [val |-> v.val, err |-> TRUE]
  ELSE [val |-> v.val, err |-> FALSE]

\* check_environment (verbose): 0 or -1, and the static variables; the
\* variables after the one that is found invalid are not looked at
CheckEnvironment(d) ==
  LET h == ByteorderEnv(d.headerbyteorder, d.env.UNPACK_HEADER_BYTEORDER)
      b == ByteorderEnv(d.databyteorder, d.env.UNPACK_DATA_BYTEORDER)
      f == EncodingEnv(d.encodingformat, d.env.UNPACK_DATA_FORMAT, 0 - 1)
      fb == EncodingEnv(d.encodingfallback,
                        d.env.UNPACK_DATA_FORMAT_FALLBACK, 10)
      d1 == [d EXCEPT !.headerbyteorder = h.val]
      d2 == [d1 EXCEPT !.databyteorder = b.val]
      d3 == [d2 EXCEPT !.encodingformat = f.val]
      d4 == [d3 EXCEPT !.encodingfallback = fb.val]
  IN  IF h.err THEN [ret |-> 0 - 1, d |-> d1]
      ELSE IF b.err THEN [ret |-> 0 - 1, d |-> d2]
      ELSE IF f.err THEN [ret |-> 0 - 1, d |-> d3]
      ELSE IF fb.err THEN [ret |-> 0 - 1, d |-> d4]
      ELSE [ret |-> 0, d |-> d4]

\* msr_unpack_data: the number of samples unpacked, -1 for an encoding
\* that is not known
MsrUnpackData(encoding, samplecnt) ==
  IF encoding \in DecodableEncodings THEN samplecnt ELSE 0 - 1

\* msr_unpack, from "Check if byte order is forced" on: the record
\* delivered for the raw record rec (the encoding and byte order of its
\* Blockette 1000, -1 without one, and its sample count) under the
\* options in d
UnpackedRecord(d, rec, dataflag) ==
  LET byteorder == IF d.databyteorder >= 0 THEN d.databyteorder
                   ELSE rec.byteorder
      forced == IF d.encodingformat >= 0 THEN d.encodingformat
                ELSE rec.encoding
      fallback == d.encodingfallback >= 0 /\ forced = 0 - 1
      encoding == IF fallback THEN d.encodingfallback ELSE forced
  IN  [ encoding |-> encoding,
        byteorder |-> IF fallback /\ byteorder = 0 - 1 THEN 1 ELSE byteorder,
        numsamples |-> IF dataflag /\ rec.samplecnt > 0
                         THEN MsrUnpackData(encoding, rec.samplecnt)
                         ELSE 0 ]

\* msr_unpack (record, reclen, ppmsr, dataflag, verbose) as its caller
\* sees it: the static variables and the result
MsrUnpackCall(d, rec, reclen, dataflag) ==
  LET unread == \/ d.headerbyteorder = 0 - 2 \/ d.databyteorder = 0 - 2
                \/ d.encodingformat = 0 - 2 \/ d.encodingfallback = 0 - 2
      ce == IF unread THEN CheckEnvironment(d) ELSE [ret |-> 0, d |-> d]
      null == [d EXCEPT !.ret = "NULL", !.enverr = FALSE,
                        !.msr = DecInit(NoEnv).msr]
  IN  IF reclen < MINRECLEN \/ reclen > MAXRECLEN THEN null
      ELSE IF ce.ret # 0
        THEN [ce.d EXCEPT !.ret = "NULL", !.enverr = TRUE,
                          !.msr = DecInit(NoEnv).msr]
      ELSE IF ~rec.indicator
        THEN [ce.d EXCEPT !.ret = "NULL", !.enverr = FALSE,
                          !.msr = DecInit(NoEnv).msr]
      ELSE [ce.d EXCEPT !.ret = "msr", !.enverr = FALSE,
                        !.msr = UnpackedRecord(ce.d, rec, dataflag)]

(***************************************************************************)
(* The streaming ZIP writer (src/fdzipstream.c).  A 64-bit byte count is   *)
(* held as g whole GiB and b < 2^30 bytes, so that the limit 0xFFFFFFFF    *)
(* (4 GiB - 1) and the cut to 32 bits of packuint32 are exact.             *)
(***************************************************************************)
\* sacformat.h, the length of the SAC header in bytes
SACHEADERLEN == 632

ZS_STORE == 0
ZS_DEFLATE == 8
ZS_WRITE_SIZE == 1048576
ZS_BUFFER_SIZE == 262144

GIB == Pow2(30)

Big(g, b) == [g |-> g, b |-> b]
Bytes(n) == Big(0, n)
BigAdd(x, y) == Big(x.g + y.g + (x.b + y.b) \div GIB, (x.b + y.b) % GIB)
BigHalf(x) == Big(x.g \div 2, (x.g % 2) * (GIB \div 2) + x.b \div 2)
BigGreater(x, y) == x.g > y.g \/ (x.g = y.g /\ x.b > y.b)

\* x > 0xFFFFFFFF
Exceeds32(x) == x.g >= 4

\* (uint32_t) x, as packuint32 stores a 64-bit value
Low32(x) == Big(x.g % 4, x.b)

\* The length of the entry names and the sizes of the structures written
NameLength == 8
LocalHeaderLen == 30 + NameLength
DataDescriptionLen == 16
CentralHeaderLen == 46 + NameLength
Zip64ExtraLen == 12
Zip64EndRecordLen == 56
Zip64EndLocatorLen == 20
EndRecordLen == 22

\* A structure handed to write(): its kind, the entry it belongs to (0:
\* none), the size and offset fields it carries, whether it carries a
\* ZIP64 extra field, its entry count; len is the number of its bytes that
\* reached the descriptor and full whether that is all of it.
Item(kind, e) ==
  [ kind |-> kind, e |-> e, csize |-> Bytes(0), usize |-> Bytes(0),
    offset |-> Bytes(0), zip64 |-> FALSE, count |-> 0, len |-> Bytes(0),
    full |-> FALSE ]

\* zs_init (fd, NULL); bytes is the number of bytes that reached the
\* descriptor
ZsInit ==
  [ WriteOffset |-> Bytes(0), CentralDirectoryOffset |-> Bytes(0),
    EntryCount |-> 0, entries |-> <<>>, out |-> <<>>, bytes |-> Bytes(0) ]

\* The result of a call: the stream, the pointer or code returned and
\* *writestatus
ZsResult(z, ret, status) == [z |-> z, ret |-> ret, status |-> status]

\* zs_writedata (zstream, writeentry, writesize) for a buffer that is not
\* NULL: the structure item goes out in blocks of ZS_WRITE_SIZE bytes.
\* w is what write() does: "ok"; "fail", the first write returns -1;
\* "short", the first write takes one byte; "later", the first block is
\* written and the second write returns -1.  WriteOffset moves by the
\* blocks that were written whole.
ZsWritedata(z, item, writesize, w) ==
  LET first == IF BigGreater(writesize, Bytes(ZS_WRITE_SIZE))
                 THEN Bytes(ZS_WRITE_SIZE) ELSE writesize
      put(n, moved) ==
        [z EXCEPT !.out = Append(@, [item EXCEPT !.len = n,
                                                 !.full = (n = writesize)]),
                  !.bytes = BigAdd(@, n),
                  !.WriteOffset = BigAdd(@, moved)]
  IN  IF writesize = Bytes(0) THEN [z |-> z, ok |-> TRUE, status |-> 0]
      ELSE IF w = "ok"
        THEN [z |-> put(writesize, writesize), ok |-> TRUE, status |-> 0]
      ELSE IF w = "short"
        THEN [z |-> put(Bytes(1), Bytes(0)), ok |-> FALSE, status |-> 1]
      ELSE IF w = "later" /\ first # writesize
        THEN [z |-> put(first, first), ok |-> FALSE, status |-> 0 - 1]
      ELSE [z |-> z, ok |-> FALSE, status |-> 0 - 1]

\* The size of the deflated form of size bytes: ratio 1 for data that
\* does not shrink, 2 for data that shrinks to half
Deflated(size, ratio) == IF ratio = 1 THEN size ELSE BigHalf(size)

\* calloc of a ZIPentry and its initialisation for the stream z
NewEntry(z) ==
  [ GeneralFlag |-> 0, CompressionMethod |-> 0,
    CompressedSize |-> Bytes(0), UncompressedSize |-> Bytes(0),
    LocalHeaderOffset |-> z.WriteOffset, NameLength |-> NameLength ]

\* "Add new entry to stream list"
LinkEntry(z, zentry) ==
  [z EXCEPT !.entries = Append(@, zentry), !.EntryCount = @ + 1]

\* The Local File Header of the entry e with the given size fields
LocalHeader(z, e, csize, usize) ==
  [Item("local", e) EXCEPT !.csize = Low32(csize), !.usize = Low32(usize)]

\* zs_writeentry (zstream, entry, entrysize, name, modtime, method,
\* writestatus): name is whether a name is given, w1 and w2 what write()
\* does for the header and for the data
ZsWriteentry(z, entrysize, name, method, ratio, w1, w2) ==
  LET e == Len(z.entries) + 1
      known == method \in {ZS_STORE, ZS_DEFLATE}
      csize == IF method = ZS_DEFLATE THEN Deflated(entrysize, ratio)
               ELSE entrysize
      zentry == IF known
                  THEN [NewEntry(z) EXCEPT !.CompressionMethod = method,
                                           !.CompressedSize = csize,
                                           !.UncompressedSize = entrysize]
                  ELSE NewEntry(z)
      z1 == LinkEntry(z, zentry)
      h == ZsWritedata(z1, LocalHeader(z1, e, csize, entrysize),
                       Bytes(LocalHeaderLen), w1)
      d == ZsWritedata(h.z, Item("data", e), csize, w2)
  IN  IF ~name THEN ZsResult(z, "NULL", 0)
      ELSE IF Exceeds32(entrysize) THEN ZsResult(z, "NULL", 0)
      ELSE IF ~known THEN ZsResult(z1, "NULL", 0)
      ELSE IF ~h.ok THEN ZsResult(h.z, "NULL", h.status)
      ELSE IF ~d.ok THEN ZsResult(d.z, "NULL", d.status)
      ELSE ZsResult(d.z, "zentry", 0)

\* zs_entrybegin (zstream, name, modtime, method, writestatus)
ZsEntrybegin(z, name, method, w) ==
  LET e == Len(z.entries) + 1
      known == method \in {ZS_STORE, ZS_DEFLATE}
      zentry == [NewEntry(z) EXCEPT
                   !.GeneralFlag = 8,
                   !.CompressionMethod = IF known THEN method ELSE 0]
      z1 == LinkEntry(z, zentry)
      h == ZsWritedata(z1, LocalHeader(z1, e, Bytes(0), Bytes(0)),
                       Bytes(LocalHeaderLen), w)
  IN  IF ~name THEN ZsResult(z, "NULL", 0)
      ELSE IF ~known THEN ZsResult(z1, "NULL", 0)
      ELSE IF ~h.ok THEN ZsResult(h.z, "NULL", h.status)
      ELSE ZsResult(h.z, "zentry", 0)

\* zs_entrydata, "Calculate input chunk size, maximum is 80% of buffer
\* size"
DeflateChunk == (ZS_BUFFER_SIZE * 8) \div 10

\* zs_entrydata for a stored entry: the data is written, then counted
EntrydataStore(z, e, entrysize, w) ==
  LET d == ZsWritedata(z, Item("data", e), entrysize, w)
  IN  IF ~d.ok THEN ZsResult(d.z, "NULL", d.status)
      ELSE ZsResult([d.z EXCEPT
                       !.entries[e].UncompressedSize = BigAdd(@, entrysize),
                       !.entries[e].CompressedSize = BigAdd(@, entrysize)],
                    "zentry", 0)

\* zs_entrydata for a deflated entry: chunk after chunk is deflated,
\* written and counted.  done is the input of the chunks that were
\* written: all of it, or the first chunk when the second write fails
\* ("later").
EntrydataDeflate(z, e, entrysize, ratio, w) ==
  LET many == BigGreater(entrysize, Bytes(DeflateChunk))
      done == IF w = "ok" THEN entrysize
              ELSE IF w = "later" /\ many THEN Bytes(DeflateChunk)
              ELSE Bytes(0)
      d == ZsWritedata(z, Item("data", e), Deflated(done, ratio), "ok")
      z1 == IF done = Bytes(0) THEN z
            ELSE [d.z EXCEPT
                    !.entries[e].CompressedSize =
                       BigAdd(@, Deflated(done, ratio)),
                    !.entries[e].UncompressedSize = BigAdd(@, done)]
      s == ZsWritedata(z1, Item("data", e), Bytes(DeflateChunk), "short")
  IN  IF w = "ok" \/ entrysize = Bytes(0) THEN ZsResult(z1, "zentry", 0)
      ELSE IF w = "short" THEN ZsResult(s.z, "NULL", s.status)
      ELSE ZsResult(z1, "NULL", 0 - 1)

\* zs_entrydata (zstream, zentry, entry, entrysize, final, writestatus);
\* e is the position of zentry in the list, 0 for NULL
ZsEntrydata(z, e, entrysize, ratio, w) ==
  IF e = 0 THEN ZsResult(z, "NULL", 0)
  ELSE IF z.entries[e].CompressionMethod = ZS_STORE
    THEN EntrydataStore(z, e, entrysize, w)
  ELSE IF z.entries[e].CompressionMethod = ZS_DEFLATE
    THEN EntrydataDeflate(z, e, entrysize, ratio, w)
  ELSE ZsResult(z, "zentry", 0)

\* zs_entryend (zstream, zentry, writestatus)
ZsEntryend(z, e, w) ==
  LET dd == [Item("dd", e) EXCEPT
               !.csize = Low32(z.entries[e].CompressedSize),
               !.usize = Low32(z.entries[e].UncompressedSize)]
      d == ZsWritedata(z, dd, Bytes(DataDescriptionLen), w)
  IN  IF e = 0 THEN ZsResult(z, "NULL", 0)
      ELSE IF ~d.ok THEN ZsResult(d.z, "NULL", d.status)
      ELSE ZsResult(d.z, "zentry", 0)

\* zs_finish, the Central Directory Header of the entry e
CentralHeader(z, e) ==
  LET zentry == z.entries[e]
      zip64 == Exceeds32(zentry.LocalHeaderOffset)
  IN  [Item("central", e) EXCEPT
         !.csize = Low32(zentry.CompressedSize),
         !.usize = Low32(zentry.UncompressedSize),
         !.zip64 = zip64,
         !.offset = IF zip64 THEN zentry.LocalHeaderOffset
                    ELSE Low32(zentry.LocalHeaderOffset)]

\* zs_finish, the loop over the entries from the entry e on.  failat is
\* the position of the write of zs_finish for which write() does w, 0
\* for none.
RECURSIVE FinishCentral(_, _, _, _)
FinishCentral(z, e, failat, w) ==
  IF e > Len(z.entries) THEN ZsResult(z, 0, 0)
  ELSE LET hdr == CentralHeader(z, e)
           len == CentralHeaderLen + (IF hdr.zip64 THEN Zip64ExtraLen ELSE 0)
       IN  Once(ZsWritedata(z, hdr, Bytes(len),
                            IF failat = e THEN w ELSE "ok"),
                LAMBDA r : IF ~r.ok THEN ZsResult(r.z, 0 - 1, r.status)
                           ELSE FinishCentral(r.z, e + 1, failat, w))

\* A zs_finish that writes the ZIP64 end structures when the offset of an
\* entry, not that of the central directory, exceeds 0xFFFFFFFF.
FinishZip64ByEntry(z, failat, w) ==
  LET n == Len(z.entries)
      rec == [Item("z64end", 0) EXCEPT !.count = z.EntryCount,
                                       !.offset = z.CentralDirectoryOffset]
      r == ZsWritedata(z, rec, Bytes(Zip64EndRecordLen),
                       IF failat = n + 1 THEN w ELSE "ok")
      l == ZsWritedata(r.z, Item("z64loc", 0), Bytes(Zip64EndLocatorLen),
                       IF failat = n + 2 THEN w ELSE "ok")
  IN  IF \A e \in 1..n : ~Exceeds32(z.entries[e].LocalHeaderOffset)
        THEN ZsResult(z, 0, 0)
      ELSE IF ~r.ok THEN ZsResult(r.z, 0 - 1, r.status)
      ELSE IF ~l.ok THEN ZsResult(l.z, 0 - 1, l.status)
      ELSE ZsResult(l.z, 0, 0)

\* zs_finish, the ZIP64 End of Central Directory Record and Locator
FinishZip64(z, failat, w) ==
  LET n == Len(z.entries)
      rec == [Item("z64end", 0) EXCEPT !.count = z.EntryCount,
                                       !.offset = z.CentralDirectoryOffset]
      r == ZsWritedata(z, rec, Bytes(Zip64EndRecordLen),
                       IF failat = n + 1 THEN w ELSE "ok")
      l == ZsWritedata(r.z, Item("z64loc", 0), Bytes(Zip64EndLocatorLen),
                       IF failat = n + 2 THEN w ELSE "ok")
  IN  IF ~Exceeds32(z.CentralDirectoryOffset) THEN ZsResult(z, 0, 0)
      ELSE IF ~r.ok THEN ZsResult(r.z, 0 - 1, r.status)
      ELSE IF ~l.ok THEN ZsResult(l.z, 0 - 1, l.status)
      ELSE ZsResult(l.z, 0, 0)

\* zs_finish, the End of Central Directory Record
FinishEnd(z, failat, w) ==
  LET rec == [Item("end", 0) EXCEPT
                !.count = z.EntryCount % 65536,
                !.offset = IF Exceeds32(z.CentralDirectoryOffset)
                             THEN Big(3, GIB - 1)
                             ELSE z.CentralDirectoryOffset]
      r == ZsWritedata(z, rec, Bytes(EndRecordLen),
                       IF failat = Len(z.entries) + 3 THEN w ELSE "ok")
  IN  IF ~r.ok THEN ZsResult(r.z, 0 - 1, r.status)
      ELSE ZsResult(r.z, 0, 0)

\* zs_finish (zstream, writestatus)
ZsFinish(z, failat, w) ==
  Once(FinishCentral([z EXCEPT !.CentralDirectoryOffset = z.WriteOffset],
                     1, failat, w),
       LAMBDA c :
         IF c.ret # 0 THEN c
         ELSE Once(FinishZip64(c.z, failat, w),
                   LAMBDA r : IF r.ret # 0 THEN r
                              ELSE FinishEnd(r.z, failat, w)))

\* What the caller of the ZIP writer has seen: the number of calls made,
\* the last call, the pointer it returned ("zentry", "NULL") or the code
\* zs_finish returned, *writestatus, the entry the caller is streaming
\* (0: none), the stream before the call and the size handed to it, the
\* number of calls in which write() failed, and whether zs_finish was
\* called.
ZcInit ==
  [ calls |-> 0, call |-> "none", ret |-> "none", code |-> 0, status |-> 0,
    open |-> 0, before |-> ZsInit, size |-> Bytes(0), failures |-> 0,
    finished |-> FALSE ]


TraceInit == [traces |-> <<>>, numtraces |-> 0, overrun |-> FALSE]

\* ms_readmsr: whether the call goes into "Autodetect the record length"
\* (autodet || reclen < 0)
Detects(s, msfile, reclen, opened) ==
  LET s4 == MsSetReclen(MsOpen(s, msfile, opened), reclen)
  IN  s4.fp # "NULL" /\ (s4.autodet = 1 \/ reclen < 0)

\* A read call of a session that passes reclen 0 to every call, as
\* mseed2sac does with its one reclen for all calls: it opens the file
\* when none is open.
SessionRead ==
  /\ MayRead
  /\ \E skipnotdata \in BOOLEAN, ioerr \in BOOLEAN, g \in GarbageSizes,
        opened \in IF rd.fp = "NULL" THEN AnyFile ELSE {NoFile} :
       \E res \in {MsReadmsr(rd, FALSE, "a", 0, skipnotdata, ioerr, g,
                              opened)} :
           /\ rd' = res.s
           /\ io' = [Observe(res, "read", FALSE, rd.recordcount) EXCEPT
                       !.sess = TRUE,
                       !.detected = Detects(rd, "a", 0, opened),
                       !.locked = IF io.locked # 0 THEN io.locked
                                  ELSE IF res.ret = "MS_NOERROR"
                                    THEN res.s.readlen
                                  ELSE 0,
                       !.adv = res.s.spos - rd.spos]
  /\ UNCHANGED <<grp, tr, pk, dec, zs, zc, ch, lk>>

\* Streams of unknown record length: up to MaxItems chunks, at most one
\* of them a run of 8192 bytes that are no data record
ProbeItems ==
  { RecItem(256, 256), RecItem(512, 512), RecItem(256, 0), JunkItem(256),
    JunkItem(AUTODETMAX) }

ProbeFiles ==
  { f \in UNION { [1..n -> ProbeItems] : n \in 0..MaxItems } :
      \A i, j \in 1..Len(f) :
        (f[i].len = AUTODETMAX /\ f[j].len = AUTODETMAX) => i = j }

\* The bytes that the detection loop of a call takes from the stream
ProbedBytes(s, msfile, reclen, skipnotdata, ioerr, g, opened) ==
  LET s4 == MsSetReclen(MsOpen(s, msfile, opened), reclen)
  IN  DetectLoop(DetectStart(s4), skipnotdata, ioerr, g).read

\* The first read call on a stream of unknown record length (reclen 0 or
\* -1), which opens the file
ProbeRead ==
  /\ MayRead
  /\ rd.fp = "NULL"
  /\ \E reclen \in {0 - 1, 0}, skipnotdata \in BOOLEAN, ioerr \in BOOLEAN,
        file \in ProbeFiles :
       \E res \in {MsReadmsr(rd, FALSE, "a", reclen, skipnotdata, ioerr, 0,
                              Opened(file))} :
           /\ rd' = res.s
           /\ io' = [Observe(res, "read", FALSE, rd.recordcount) EXCEPT
                       !.detected = Detects(rd, "a", reclen, Opened(file)),
                       !.locked = IF res.ret = "MS_NOERROR"
                                    THEN res.s.readlen ELSE 0,
                       !.skip = skipnotdata,
                       !.probed = ProbedBytes(rd, "a", reclen, skipnotdata,
                                              ioerr, 0, Opened(file))]
  /\ UNCHANGED <<grp, tr, pk, dec, zs, zc, ch, lk>>

\* msr_init (NULL): the header values of a fresh record; blkts holds the
\* blktdatalen of the blockettes of the chain other than Blockette 1000
MsrInit ==
  [ reclen |-> 0 - 1, encoding |-> "DEFAULT", sequence_number |-> 0,
    samprate |-> 0, starttime |-> 0, numsamples |-> 0, sampletype |-> "",
    datasamples |-> "NULL", blkts |-> <<>> ]

\* The record named by an operation that takes none
NoRec ==
  [ network |-> <<>>, station |-> <<>>, location |-> <<>>,
    channel |-> <<>>, samprate |-> 0, starttime |-> 0, samplecnt |-> 0,
    numsamples |-> 0, sampletype |-> "", data |-> <<>> ]

\* What the caller of the assembler has seen: the number of calls made,
\* the last call (op), the group before it, its arguments and its return
\* value; log holds the records inserted while every call so far was an
\* insert with default tolerances that returned a Trace (plain).
TrInit ==
  [ ops |-> 0, op |-> "none", before |-> TraceInit, rec |-> NoRec,
    timetol |-> 0 - 1, sampratetol |-> 0 - 1, ret |-> 0,
    matched |-> FALSE, whence |-> 0, log |-> <<>>, plain |-> TRUE ]

(***************************************************************************)
(* Blockette chains: the walk of msr_unpack (libmseed/unpack.c) and the    *)
(* scan of ms_find_reclen (libmseed/fileutils.c), one loop pass per step.  *)
(***************************************************************************)
\* The blockette headers of a record: at each of these offsets a type and
\* an offset of the next blockette; every other byte of a record is zero
ChainOffsets == {48, 248}
BlocketteTypes == {100, 1000, 999}
NextOffsets == {0, 48, 52, 248, 256, 512, 600}
ChainEntries == [type : BlocketteTypes, next : NextOffsets]
Chains == [ChainOffsets -> ChainEntries]
FirstOffsets == {0, 48, 248, 600}
ChainReclens == {MINRECLEN, 2 * MINRECLEN}

\* What is known of a loop over a chain: the function that runs it, the
\* record (chain, blockette_offset of the fixed header), the length
\* passed in (reclen, for ms_find_reclen recbuflen), the loop
\* variable blkt_offset, the offsets at which a blockette header was
\* read, whether one of them was read twice, the next-offsets that were
\* followed (from, to), whether a warning was logged, whether a Blockette
\* 1000 was seen, whether the loop was left, and what the function goes
\* on with.
ChInit ==
  [ fn |-> "none", chain |-> [o \in ChainOffsets |-> [type |-> 0, next |-> 0]],
    blockette_offset |-> 0, reclen |-> 0, blkt_offset |-> 0,
    visited |-> {}, repeated |-> FALSE, followed |-> {}, warned |-> FALSE,
    Blkt1000 |-> FALSE, done |-> FALSE, ret |-> "none" ]

\* The type and next-offset that memcpy reads at offset off of the record
BlocketteAt(c, off) ==
  IF off \in DOMAIN c.chain THEN c.chain[off] ELSE [type |-> 0, next |-> 0]

\* A blockette header was read at the offset start
ChRead(c, start) ==
  [c EXCEPT !.visited = @ \cup {start},
            !.repeated = @ \/ start \in c.visited]

\* get_blktlen (blkt_type, blkt, swapflag): the length of a blockette of a
\* known type with its 4-byte header, 0 for an unknown type
GetBlktlen(blkt_type) ==
  IF blkt_type = 100 THEN 12
  ELSE IF blkt_type = 1000 THEN 8
  ELSE 0

\* The condition of the while loop of msr_unpack
UnpackWalkGoesOn(c) ==
  c.blkt_offset # 0 /\ c.blkt_offset < c.reclen /\ c.blkt_offset < MAXRECLEN

\* After the loop msr_unpack goes on with the common header fields and
\* returns the record (header only: dataflag 0)
UnpackWalkLeft(c) == [c EXCEPT !.done = TRUE, !.ret = "msr"]

\* One pass of the loop of msr_unpack without the checks of next_blkt
UnpackWalkPassUnchecked(c, addfail) ==
  LET start == c.blkt_offset
      b == BlocketteAt(c, start)
      read == [ChRead(c, start) EXCEPT !.blkt_offset = start + 4]
      blkt_length == GetBlktlen(b.type)
  IN  IF blkt_length = 0 THEN UnpackWalkLeft(read)
      ELSE IF read.blkt_offset - 4 + blkt_length > c.reclen
        THEN UnpackWalkLeft(read)
      ELSE IF addfail THEN UnpackWalkLeft(read)
      ELSE [read EXCEPT !.Blkt1000 = @ \/ b.type = 1000,
                        !.blkt_offset = b.next,
                        !.followed = IF b.next # 0
                                       THEN @ \cup {<<start, b.next>>}
                                       ELSE @]
\* One pass of the loop of msr_unpack: type and next-offset are read and
\* blkt_offset moves behind them; an unknown type, a blockette that
\* extends beyond the record and a failed msr_addblockette (addfail) break
\* the loop; a next-offset that is not zero and not beyond blkt_offset, or
\* beyond reclen, is logged and ends the walk with blkt_offset 0.
UnpackWalkPass(c, addfail) ==
  LET start == c.blkt_offset
      b == BlocketteAt(c, start)
      read == [ChRead(c, start) EXCEPT !.blkt_offset = start + 4]
      blkt_length == GetBlktlen(b.type)
      added == [read EXCEPT !.Blkt1000 = @ \/ b.type = 1000]
  IN  IF blkt_length = 0 THEN UnpackWalkLeft(read)
      ELSE IF read.blkt_offset - 4 + blkt_length > c.reclen
        THEN UnpackWalkLeft(read)
      ELSE IF addfail THEN UnpackWalkLeft(read)
      ELSE IF b.next # 0 /\ b.next <= read.blkt_offset
        THEN [added EXCEPT !.warned = TRUE, !.blkt_offset = 0]
      ELSE IF b.next # 0 /\ b.next > c.reclen
        THEN [added EXCEPT !.warned = TRUE, !.blkt_offset = 0]
      ELSE [added EXCEPT !.blkt_offset = b.next,
                         !.followed = IF b.next # 0
                                        THEN @ \cup {<<start, b.next>>}
                                        ELSE @]

\* The loop is left when its condition fails
UnpackWalkTest(c) ==
  IF c.done \/ UnpackWalkGoesOn(c) THEN c ELSE UnpackWalkLeft(c)

\* msr_unpack (record, reclen, &msr, 0, verbose) reaches the walk
UnpackWalkBegin ==
  /\ ch.fn = "none"
  /\ \E chain \in Chains, first \in FirstOffsets, reclen \in ChainReclens :
       ch' = UnpackWalkTest([ChInit EXCEPT !.fn = "msr_unpack",
                                           !.chain = chain,
                                           !.blockette_offset = first,
                                           !.reclen = reclen,
                                           !.blkt_offset = first])
  /\ UNCHANGED <<rd, io, grp, tr, pk, dec, zs, zc, lk>>

\* The walk makes one more pass
UnpackWalkStep ==
  /\ ch.fn = "msr_unpack"
  /\ ~ch.done
  /\ \E addfail \in BOOLEAN :
       ch' = UnpackWalkTest(UnpackWalkPass(ch, addfail))
  /\ UNCHANGED <<rd, io, grp, tr, pk, dec, zs, zc, lk>>

\* The condition of the while loop of ms_find_reclen
FindReclenGoesOn(c) == c.blkt_offset # 0 /\ c.blkt_offset <= c.reclen

\* After the loop ms_find_reclen returns the length that the Blockette
\* 1000 gives or goes on to look at the next 48 bytes of the file
FindReclenLeft(c) ==
  [c EXCEPT !.done = TRUE,
            !.ret = IF c.Blkt1000 THEN "reclen" ELSE "nextfsdh"]

\* One pass of the loop of ms_find_reclen: type and next-offset are read
\* at blkt_offset; a Blockette 1000 breaks the loop, any other type sets
\* blkt_offset to the next-offset.  At blkt_offset = recbuflen the bytes
\* read lie behind the buffer (beyond).
FindReclenPass(c, beyond) ==
  LET start == c.blkt_offset
      b == IF start >= c.reclen THEN beyond ELSE BlocketteAt(c, start)
      read == ChRead(c, start)
  IN  IF b.type = 1000
        THEN FindReclenLeft([read EXCEPT !.Blkt1000 = TRUE])
        ELSE [read EXCEPT !.blkt_offset = b.next,
                          !.followed = IF b.next # 0
                                         THEN @ \cup {<<start, b.next>>}
                                         ELSE @]

\* The loop is left when its condition fails
FindReclenTest(c) ==
  IF c.done \/ FindReclenGoesOn(c) THEN c ELSE FindReclenLeft(c)

\* ms_find_reclen (recbuf, recbuflen, fileptr) on a buffer with a valid
\* fixed header reaches the scan
FindReclenBegin ==
  /\ ch.fn = "none"
  /\ \E chain \in Chains, first \in FirstOffsets, reclen \in ChainReclens :
       ch' = FindReclenTest([ChInit EXCEPT !.fn = "ms_find_reclen",
                                           !.chain = chain,
                                           !.blockette_offset = first,
                                           !.reclen = reclen,
                                           !.blkt_offset = first])
  /\ UNCHANGED <<rd, io, grp, tr, pk, dec, zs, zc, lk>>

\* The scan makes one more pass
FindReclenStep ==
  /\ ch.fn = "ms_find_reclen"
  /\ ~ch.done
  /\ \E beyond \in ChainEntries :
       ch' = FindReclenTest(FindReclenPass(ch, beyond))
  /\ UNCHANGED <<rd, io, grp, tr, pk, dec, zs, zc, lk>>

\* A group after mst_initgroup, as its caller sees it: no Trace, and the
\* calls made on it (ops), the last one (op) and its return value
LkInit ==
  [ traces |-> 0, next |-> <<>>, mst |-> <<>>, numtraces |-> 0,
    ops |-> 0, op |-> "none", ret |-> 0 ]

\* What the caller of the packer has seen: the template record, the
\* number of calls made, the last call, the template before it, its
\* arguments, its return value, *packedsamples, the records handed to
\* record_handler, whether a call of msr_pack failed, whether a record
\* buffer was allocated and whether one was left allocated; prevseq is
\* the sequence number of the last record that the calls before the last
\* one handed over (0: none).
PkInit ==
  [ msr |-> MsrInit, calls |-> 0, call |-> "none", before |-> MsrInit,
    flush |-> FALSE, sinkfail |-> 0, ret |-> 0, packedsamples |-> 0,
    handed |-> <<>>, failed |-> FALSE, allocated |-> FALSE,
    leaked |-> FALSE, prevseq |-> 0 ]

Init ==
  /\ rd = ReaderInit
  /\ io = IoInit
  /\ grp = TraceInit
  /\ tr = TrInit
  /\ pk = PkInit
  /\ dec = DecInit(NoEnv)
  /\ zs = ZsInit
  /\ zc = ZcInit
  /\ ch = ChInit
  /\ lk = LkInit

NextReader ==
  \/ ReadOpen
  \/ ReadMore
  \/ ReadOther
  \/ ReadNullPpmsr
  \/ CleanupCall

SpecReader == Init /\ [][NextReader]_vars

\* Sessions with reclen 0 on every call, each ended by the cleanup call
NextSession ==
  \/ SessionRead
  \/ CleanupCall

SpecSession == Init /\ [][NextSession]_vars

NextProbe == ProbeRead \/ CleanupCall

SpecProbe == Init /\ [][NextProbe]_vars

\* Chains: one call of msr_unpack or ms_find_reclen on a record; a loop
\* that can make a pass makes it
NextChain ==
  \/ UnpackWalkBegin
  \/ UnpackWalkStep
  \/ FindReclenBegin
  \/ FindReclenStep

SpecChain == Init /\ [][NextChain]_vars /\ WF_vars(UnpackWalkStep \/ FindReclenStep)


(***************************************************************************)
(* Properties of the reader.                                               *)
(***************************************************************************)

\* The last call was a read that found the input exhausted at a record
\* boundary: the read that failed hit the end of the file and got no byte.
Exhausted == io.call = "read" /\ ~io.nullpp /\ io.eof /\ io.got = 0

C2_CleanupResets ==
  io.call = "cleanup" =>
    /\ rd.fp = "NULL" /\ rd.rawrec = "NULL" /\ rd.msr = "NULL"
    /\ rd.autodet = 1 /\ rd.readlen = MINRECLEN
    /\ rd.packinfolen = 0 /\ rd.packinfooffset = 0
    /\ rd.filepos = 0 /\ rd.recordcount = 0
    /\ ~rd.dblclose /\ ~rd.dblfree

C2_Witness ==
  /\ io.call = "cleanup" /\ io.pfp = "open" /\ io.prawrec = "alloc"
  /\ io.recs > 0 /\ rd.fp = "NULL" /\ rd.autodet = 1

\* C3: every read call that returns other than NoError ends the session:
\* the caller's record pointer is NULL, no handle is open and no record
\* buffer is held.
C3_ErrorEndsSession ==
  (io.call = "read" /\ ~io.nullpp /\ io.ret # "MS_NOERROR") =>
    rd.msr = "NULL" /\ rd.fp = "NULL" /\ rd.rawrec = "NULL"


(***************************************************************************)
(* The trace assembler (traceutils.c).  Times are hptime_t ticks, sample   *)
(* rates are whole numbers of samples per second that divide HPTMODULUS/2, *)
(* so that sample periods and half periods are whole ticks; the rate 0 has *)
(* the period INFTIME (1.0 / 0.0).  A tolerance argument is -1 (default),  *)
(* -2 (no check) or a value >= 0: ticks for timetol, samples per second    *)
(* for sampratetol.                                                        *)
(***************************************************************************)
INFTIME == 500000000

\* 1.0 / samprate and 0.5 / samprate, in ticks
Period(samprate) == IF samprate = 0 THEN INFTIME ELSE HPTMODULUS \div samprate
HalfPeriodAsTwoPeriods(samprate) ==
  IF samprate = 0 THEN INFTIME ELSE 2 * (HPTMODULUS \div samprate)

HalfPeriod(samprate) ==
  IF samprate = 0 THEN INFTIME ELSE HPTMODULUS \div (2 * samprate)

\* ((double)(t2 - t1)/HPTMODULUS) - (1.0 / samprate), in ticks
Gap(t1, t2, samprate) ==
  IF samprate = 0 THEN 0 - INFTIME ELSE (t2 - t1) - Period(samprate)

\* MS_ISRATETOLERABLE (A, B): abs (1 - A/B) < 0.0001; false when the
\* quotient is infinite or not a number.
IsRateTolerable(A, B) ==
  IF B = 0 THEN FALSE ELSE Abs(B - A) * 10000 < B

\* strcmp on strings given as sequences of character codes: -1, 0 or 1
RECURSIVE Strcmp(_, _)
Strcmp(a, b) ==
  IF a = <<>> /\ b = <<>> THEN 0
  ELSE IF a = <<>> THEN 0 - 1
  ELSE IF b = <<>> THEN 1
  ELSE IF Head(a) < Head(b) THEN 0 - 1
  ELSE IF Head(a) > Head(b) THEN 1
  ELSE Strcmp(Tail(a), Tail(b))

\* mst_srcname: "NET_STA_LOC_CHAN" (95 is '_')
MstSrcname(mst) ==
  mst.network \o <<95>> \o mst.station \o <<95>> \o mst.location
    \o <<95>> \o mst.channel

\* strcmp of all four name identifiers is 0
SameSource(a, b) ==
  /\ a.network = b.network /\ a.station = b.station
  /\ a.location = b.location /\ a.channel = b.channel

\* msr_endtime: the time of the last sample
MsrEndtime(msr) ==
  IF msr.samprate > 0 /\ msr.samplecnt > 0
    THEN msr.starttime
         + ((2 * (msr.samplecnt - 1) * HPTMODULUS + msr.samprate)
            \div (2 * msr.samprate))
    ELSE msr.starttime

\* The sample-rate check of mst_findadjacent.
RateFits(samprate, mstrate, sampratetol) ==
  IF sampratetol = 0 - 2 THEN TRUE
  ELSE IF sampratetol = 0 - 1 THEN IsRateTolerable(samprate, mstrate)
  ELSE ~(Abs(samprate - mstrate) > sampratetol)

\* The time check of mst_findadjacent for one trace: the whence it sets,
\* 0 when the span fits neither end.
Whence(mst, samprate, starttime, endtime, timetol) ==
  LET postgap == Gap(mst.endtime, starttime, samprate)
      pregap == Gap(endtime, mst.starttime, samprate)
      tol == IF timetol = 0 - 1 THEN HalfPeriod(samprate) ELSE timetol
  IN  IF timetol = 0 - 2
        THEN IF Abs(postgap) < Abs(pregap) THEN 1 ELSE 2
      ELSE IF Abs(postgap) <= tol THEN 1
      ELSE IF Abs(pregap) <= tol THEN 2
      ELSE 0

\* mst_findadjacent: the position in the chain of the first trace of the
\* same source whose rate and time fit (0: none), and the whence flag.
MstFindadjacent(traces, msr, sampratetol, endtime, timetol) ==
  LET fit == { i \in 1..Len(traces) :
                 /\ SameSource(traces[i], msr)
                 /\ RateFits(msr.samprate, traces[i].samprate, sampratetol)
                 /\ Whence(traces[i], msr.samprate, msr.starttime, endtime,
                           timetol) # 0 }
      first == CHOOSE i \in fit : \A j \in fit : i <= j
  IN  IF fit = {} THEN [mst |-> 0, whence |-> 0]
      ELSE [mst |-> first,
            whence |-> Whence(traces[first], msr.samprate, msr.starttime,
                              endtime, timetol)]

\* The prepend of mst_addmsr and mst_addspan on the sample buffer: realloc
\* to Len(old) + Len(new) samples (the new tail is uninitialised, g), then
\* memmove of Len(new) samples from the start of the buffer to position
\* Len(new), then memcpy of the new samples to the start.  overrun: the
\* memmove writes behind the end of the buffer.
SplicePrepend(old, new, g) ==
  LET m == Len(old)
      n == Len(new)
      pre == [i \in 1..(m + n) |-> IF i <= m THEN old[i] ELSE g]
  IN  [data |-> [i \in 1..(m + n) |->
                   IF i <= n THEN new[i]
                   ELSE IF m > 0 /\ i <= 2 * n THEN pre[i - n]
                   ELSE pre[i]],
       overrun |-> m > 0 /\ n > m]

\* mst_addmsr (mst, msr, whence).  A record carries decoded samples
\* (datasamples is not NULL) exactly when numsamples > 0.
MstAddmsr(mst, msr, whence, g) ==
  LET hasdata == msr.numsamples > 0
      sp == SplicePrepend(mst.data, msr.data, g)
  IN  IF hasdata /\ msr.sampletype # mst.sampletype
        THEN [ret |-> 0 - 1, mst |-> mst, overrun |-> FALSE]
      ELSE IF whence = 1
        THEN [ret |-> 0,
              mst |-> [mst EXCEPT
                         !.data = IF hasdata THEN @ \o msr.data ELSE @,
                         !.numsamples = IF hasdata THEN @ + msr.numsamples
                                        ELSE @,
                         !.endtime = MsrEndtime(msr),
                         !.samplecnt = @ + msr.samplecnt],
              overrun |-> FALSE]
      ELSE IF whence = 2
        THEN [ret |-> 0,
              mst |-> [mst EXCEPT
                         !.data = IF hasdata THEN sp.data ELSE @,
                         !.numsamples = IF hasdata THEN @ + msr.numsamples
                                        ELSE @,
                         !.starttime = msr.starttime,
                         !.samplecnt = @ + msr.samplecnt],
              overrun |-> hasdata /\ sp.overrun]
      ELSE [ret |-> 0, mst |-> [mst EXCEPT !.samplecnt = @ + msr.samplecnt],
            overrun |-> FALSE]

\* mst_addspan (mst, starttime, endtime, datasamples, numsamples,
\* sampletype, whence); span holds the last five arguments but whence.
MstAddspan(mst, span, whence, g) ==
  LET hasdata == span.numsamples > 0
      sp == SplicePrepend(mst.data, span.data, g)
  IN  IF hasdata /\ span.sampletype # mst.sampletype
        THEN [ret |-> 0 - 1, mst |-> mst, overrun |-> FALSE]
      ELSE IF whence = 1
        THEN [ret |-> 0,
              mst |-> [mst EXCEPT
                         !.data = IF hasdata THEN @ \o span.data ELSE @,
                         !.numsamples = IF hasdata THEN @ + span.numsamples
                                        ELSE @,
                         !.endtime = span.endtime,
                         !.samplecnt = IF span.numsamples > 0
                                         THEN @ + span.numsamples ELSE @],
              overrun |-> FALSE]
      ELSE [ret |-> 0,
            mst |-> [mst EXCEPT
                       !.data = IF hasdata THEN sp.data ELSE @,
                       !.numsamples = IF hasdata THEN @ + span.numsamples
                                      ELSE @,
                       !.starttime = span.starttime,
                       !.samplecnt = IF span.numsamples > 0
                                       THEN @ + span.numsamples ELSE @],
            overrun |-> hasdata /\ sp.overrun]

\* mst_init followed by the assignments of mst_addmsrtogroup for a new
\* Trace, before its mst_addmsr (mst, msr, 1).
NewTrace(msr) ==
  [ network |-> msr.network, station |-> msr.station,
    location |-> msr.location, channel |-> msr.channel,
    samprate |-> msr.samprate, starttime |-> msr.starttime, endtime |-> 0,
    samplecnt |-> 0, numsamples |-> 0, sampletype |-> msr.sampletype,
    data |-> <<>> ]

\* mst_addtracetogroup (mstg, mst)
MstAddtracetogroup(g0, mst) ==
  [g0 EXCEPT !.traces = Append(@, mst), !.numtraces = @ + 1]

\* mst_addmsrtogroup: "Records with no time coverage do not contribute
\* to a trace"
NoTimeCoverageNever(msr) == FALSE

NoTimeCoverage(msr) == msr.samplecnt = 0 \/ msr.samprate <= 0

\* mst_addmsrtogroup (mstg, msr, timetol, sampratetol): the group, the
\* position of the Trace returned (0 for the error return), whether a
\* Trace was matched and the whence flag.
MstAddmsrtogroup(g0, msr, timetol, sampratetol, g) ==
  LET f == MstFindadjacent(g0.traces, msr, sampratetol, MsrEndtime(msr),
                           timetol)
      upd == MstAddmsr(g0.traces[f.mst], msr, f.whence, g)
      new == MstAddmsr(NewTrace(msr), msr, 1, g)
  IN  IF f.mst # 0
        THEN IF NoTimeCoverage(msr)
               THEN [grp |-> g0, mst |-> f.mst, matched |-> TRUE,
                     whence |-> f.whence]
             ELSE IF upd.ret # 0
               THEN [grp |-> g0, mst |-> 0, matched |-> TRUE,
                     whence |-> f.whence]
             ELSE [grp |-> [g0 EXCEPT !.traces[f.mst] = upd.mst,
                                      !.overrun = @ \/ upd.overrun],
                   mst |-> f.mst, matched |-> TRUE, whence |-> f.whence]
      ELSE IF new.ret # 0
        THEN [grp |-> g0, mst |-> 0, matched |-> FALSE, whence |-> 0]
      ELSE [grp |-> MstAddtracetogroup(g0, new.mst),
            mst |-> Len(g0.traces) + 1, matched |-> FALSE, whence |-> 0]

\* The arguments mst_heal passes to mst_addspan for searchtrace.
SpanOf(mst) ==
  [ starttime |-> mst.starttime, endtime |-> mst.endtime, data |-> mst.data,
    numsamples |-> mst.numsamples, sampletype |-> mst.sampletype ]

\* traces without its j-th element
RemoveAt(traces, j) ==
  SubSeq(traces, 1, j - 1) \o SubSeq(traces, j + 1, Len(traces))

\* mst_heal, the merge of searchtrace (position j) into curtrace (position
\* c): mst_addspan, whose return value is not looked at, the sample count
\* update for a searchtrace without data, and the unlinking of searchtrace.
HealMerge(traces, c, j, whence, tol, g) ==
  LET a == MstAddspan(traces[c], SpanOf(traces[j]), whence, g)
      cur == IF traces[j].numsamples <= 0
               THEN [a.mst EXCEPT !.samplecnt = @ + traces[j].samplecnt]
               ELSE a.mst
  IN  [traces |-> RemoveAt([traces EXCEPT ![c] = cur], j),
       c |-> IF j < c THEN c - 1 ELSE c,
       timetol |-> tol, merged |-> TRUE, overrun |-> a.overrun]

\* mst_heal, the inner loop from searchtrace at position j on: the chain,
\* the position of curtrace, the time tolerance (replaced by half the
\* sample period of searchtrace once it is found to be -1.0), and whether
\* a merge ended the loop.
RECURSIVE HealScan(_, _, _, _, _, _)
HealScan(traces, c, j, timetol, sampratetol, g) ==
  IF j > Len(traces)
    THEN [traces |-> traces, c |-> c, timetol |-> timetol,
          merged |-> FALSE, overrun |-> FALSE]
  ELSE IF j = c \/ ~SameSource(traces[j], traces[c])
    THEN HealScan(traces, c, j + 1, timetol, sampratetol, g)
  ELSE IF \/ sampratetol = 0 - 1
             /\ ~IsRateTolerable(traces[j].samprate, traces[c].samprate)
          \/ sampratetol # 0 - 1
             /\ Abs(traces[j].samprate - traces[c].samprate) > sampratetol
    THEN HealScan(traces, c, j + 1, timetol, sampratetol, g)
  ELSE
    LET tol == IF timetol = 0 - 1 THEN HalfPeriod(traces[j].samprate)
               ELSE timetol
        postgap == Gap(traces[c].endtime, traces[j].starttime,
                       traces[c].samprate)
        pregap == Gap(traces[j].endtime, traces[c].starttime,
                      traces[c].samprate)
        whence == IF Abs(postgap) <= tol THEN 1
                  ELSE IF Abs(pregap) <= tol THEN 2 ELSE 0
    IN  IF whence = 0
          THEN HealScan(traces, c, j + 1, tol, sampratetol, g)
        ELSE HealMerge(traces, c, j, whence, tol, g)

\* mst_heal, the outer loop from curtrace at position st.c on.
RECURSIVE HealFrom(_, _, _)
HealFrom(st, sampratetol, g) ==
  IF st.c > Len(st.traces) THEN st
  ELSE Once(HealScan(st.traces, st.c, 1, st.timetol, sampratetol, g),
            LAMBDA r :
              HealFrom([traces |-> r.traces, c |-> r.c + 1,
                        timetol |-> r.timetol,
                        mergings |-> IF r.merged THEN st.mergings + 1
                                     ELSE st.mergings,
                        overrun |-> st.overrun \/ r.overrun],
                       sampratetol, g))

\* mst_heal (mstg, timetol, sampratetol): the group and the number of
\* mergings returned.
MstHeal(g0, timetol, sampratetol, g) ==
  Once(HealFrom([traces |-> g0.traces, c |-> 1, timetol |-> timetol,
                 mergings |-> 0, overrun |-> FALSE], sampratetol, g),
       LAMBDA st :
         [grp |-> [traces |-> st.traces,
                   numtraces |-> g0.numtraces - st.mergings,
                   overrun |-> g0.overrun \/ st.overrun],
          ret |-> st.mergings])

\* A test that puts the earlier end time first
SwapNeededEndAscending(a, b) ==
  LET strcmpval == Strcmp(MstSrcname(a), MstSrcname(b))
  IN  \/ strcmpval > 0
      \/ strcmpval = 0 /\ a.samprate > b.samprate
      \/ strcmpval = 0 /\ a.samprate = b.samprate
           /\ a.starttime > b.starttime
      \/ strcmpval = 0 /\ a.samprate = b.samprate
           /\ a.starttime = b.starttime /\ a.endtime > b.endtime

\* mst_groupsort, the test that sets swap for mst (a) and mst->next (b)
SwapNeeded(a, b) ==
  LET strcmpval == Strcmp(MstSrcname(a), MstSrcname(b))
  IN  IF strcmpval > 0 THEN TRUE
      ELSE IF strcmpval = 0
        THEN IF a.samprate > b.samprate THEN TRUE
             ELSE IF a.samprate = b.samprate
               THEN IF a.starttime > b.starttime THEN TRUE
                    ELSE IF a.starttime = b.starttime
                      THEN a.endtime < b.endtime
                    ELSE FALSE
             ELSE FALSE
      ELSE FALSE

\* mst_groupsort, one pass of the inner loop with mst at position i
RECURSIVE SortPass(_, _, _)
SortPass(traces, i, swapped) ==
  IF i >= Len(traces) THEN [traces |-> traces, swapped |-> swapped]
  ELSE IF SwapNeeded(traces[i], traces[i + 1])
    THEN SortPass([traces EXCEPT ![i] = traces[i + 1], ![i + 1] = traces[i]],
                  i + 1, swapped + 1)
  ELSE SortPass(traces, i + 1, swapped)

\* mst_groupsort (mstg): passes until one swaps nothing
RECURSIVE MstGroupsort(_)
MstGroupsort(traces) ==
  IF traces = <<>> THEN traces
  ELSE Once(SortPass(traces, 1, 0),
            LAMBDA r : IF r.swapped > 0 THEN MstGroupsort(r.traces)
                       ELSE r.traces)

(***************************************************************************)
(* The Trace chain with its links: a group is the pointer traces to the    *)
(* first Trace, the next pointer and the content of every allocated Trace  *)
(* (0 is the null pointer), and the counter numtraces.                     *)
(***************************************************************************)
\* Bounds: Traces allocated at a time, calls on a group
MaxNodes == 3
MaxLinkOps == 4

\* The Traces from mst on along next, at most fuel of them
RECURSIVE ChainFrom(_, _, _)
ChainFrom(l, mst, fuel) ==
  IF mst = 0 \/ fuel = 0 THEN <<>>
  ELSE <<mst>> \o ChainFrom(l, l.next[mst], fuel - 1)

\* malloc: a Trace that is not allocated
FreeNode(l) == CHOOSE n \in 1..MaxNodes : n \notin DOMAIN l.next

\* mst_init (NULL) and the assignments to the new Trace: next is 0
LinkAlloc(l, n, trace) ==
  [l EXCEPT !.next = [m \in DOMAIN l.next \cup {n} |->
                        IF m = n THEN 0 ELSE l.next[m]],
            !.mst = [m \in DOMAIN l.mst \cup {n} |->
                       IF m = n THEN trace ELSE l.mst[m]]]

\* mst_free (&mst)
LinkFree(l, n) ==
  [l EXCEPT !.next = [m \in DOMAIN l.next \ {n} |-> l.next[m]],
            !.mst = [m \in DOMAIN l.mst \ {n} |-> l.mst[m]]]

\* while ( lasttrace->next ) lasttrace = lasttrace->next;
RECURSIVE LastTrace(_, _)
LastTrace(l, lasttrace) ==
  IF l.next[lasttrace] = 0 THEN lasttrace
  ELSE LastTrace(l, l.next[lasttrace])

\* mst_addmsrtogroup: "Link new Trace into the end of the chain" and count
\* it
LinkAtEnd(l, mst) ==
  IF l.traces = 0
    THEN [l EXCEPT !.traces = mst, !.numtraces = @ + 1]
    ELSE [l EXCEPT !.next[LastTrace(l, l.traces)] = mst,
                   !.numtraces = @ + 1]

\* mst_addmsrtogroup (mstg, msr, -1.0, -1.0) on the chain: the group and
\* the Trace returned (0 for the error return)
LinkAddmsrtogroup(l, msr, g) ==
  LET chain == ChainFrom(l, l.traces, MaxNodes)
      f == MstFindadjacent([i \in 1..Len(chain) |-> l.mst[chain[i]]], msr,
                           0 - 1, MsrEndtime(msr), 0 - 1)
      mst == chain[f.mst]
      upd == MstAddmsr(l.mst[mst], msr, f.whence, g)
      new == MstAddmsr(NewTrace(msr), msr, 1, g)
      n == FreeNode(l)
  IN  IF f.mst # 0
        THEN IF NoTimeCoverage(msr) THEN [l |-> l, ret |-> mst]
             ELSE IF upd.ret # 0 THEN [l |-> l, ret |-> 0]
             ELSE [l |-> [l EXCEPT !.mst[mst] = upd.mst], ret |-> mst]
      ELSE IF new.ret # 0 THEN [l |-> l, ret |-> 0]
      ELSE [l |-> LinkAtEnd(LinkAlloc(l, n, new.mst), n), ret |-> n]

\* mst_addtracetogroup (mstg, mst) for the Trace mst of the caller
LinkAddtracetogroup(l, mst) ==
  LET linked == IF l.traces = 0 THEN [l EXCEPT !.traces = mst]
                ELSE [l EXCEPT !.next[LastTrace(l, l.traces)] = mst]
  IN  [linked EXCEPT !.next[mst] = 0, !.numtraces = @ + 1]

\* mst_heal: the tests of searchtrace (s) against curtrace (c): 0 when s
\* is passed over, otherwise the whence flag of the merge
HealWhence(c, s, tol, sampratetol) ==
  LET postgap == Gap(c.endtime, s.starttime, c.samprate)
      pregap == Gap(s.endtime, c.starttime, c.samprate)
  IN  IF \/ sampratetol = 0 - 1 /\ ~IsRateTolerable(s.samprate, c.samprate)
         \/ sampratetol # 0 - 1 /\ Abs(s.samprate - c.samprate) > sampratetol
        THEN 0
      ELSE IF Abs(postgap) <= tol THEN 1
      ELSE IF Abs(pregap) <= tol THEN 2
      ELSE 0

\* A merge that leaves the counter as it is.
LinkHealMergeKeepsCount(l, curtrace, searchtrace, prevtrace, nexttrace, whence, g) ==
  LET s == l.mst[searchtrace]
      a == MstAddspan(l.mst[curtrace], SpanOf(s), whence, g)
      cur == IF s.numsamples <= 0
               THEN [a.mst EXCEPT !.samplecnt = @ + s.samplecnt]
               ELSE a.mst
      merged == [l EXCEPT !.mst[curtrace] = cur]
      relinked == IF searchtrace = l.traces
                    THEN [merged EXCEPT !.traces = nexttrace]
                    ELSE [merged EXCEPT !.next[prevtrace] = nexttrace]
  IN  LinkFree(relinked, searchtrace)
\* mst_heal, the merge of searchtrace into curtrace: mst_addspan, the
\* sample count of a searchtrace without data, "Re-link trace chain and
\* free searchtrace", and the counter
LinkHealMerge(l, curtrace, searchtrace, prevtrace, nexttrace, whence, g) ==
  LET s == l.mst[searchtrace]
      a == MstAddspan(l.mst[curtrace], SpanOf(s), whence, g)
      cur == IF s.numsamples <= 0
               THEN [a.mst EXCEPT !.samplecnt = @ + s.samplecnt]
               ELSE a.mst
      merged == [l EXCEPT !.mst[curtrace] = cur]
      relinked == IF searchtrace = l.traces
                    THEN [merged EXCEPT !.traces = nexttrace]
                    ELSE [merged EXCEPT !.next[prevtrace] = nexttrace]
  IN  [LinkFree(relinked, searchtrace) EXCEPT !.numtraces = @ - 1]

\* mst_heal, the inner loop with searchtrace = nexttrace: the group, the
\* time tolerance and whether a merge ended the loop
RECURSIVE LinkHealScan(_, _, _, _, _, _, _)
LinkHealScan(l, curtrace, nexttrace, prevtrace, timetol, sampratetol, g) ==
  IF nexttrace = 0
    THEN [l |-> l, timetol |-> timetol, merged |-> FALSE]
  ELSE
    LET searchtrace == nexttrace
        after == l.next[searchtrace]
        s == l.mst[searchtrace]
        c == l.mst[curtrace]
        tol == IF timetol = 0 - 1 THEN HalfPeriod(s.samprate) ELSE timetol
        whence == HealWhence(c, s, tol, sampratetol)
    IN  IF searchtrace = curtrace \/ ~SameSource(s, c)
          THEN LinkHealScan(l, curtrace, after, searchtrace, timetol,
                            sampratetol, g)
        ELSE IF \/ sampratetol = 0 - 1
                   /\ ~IsRateTolerable(s.samprate, c.samprate)
                \/ sampratetol # 0 - 1
                   /\ Abs(s.samprate - c.samprate) > sampratetol
          THEN LinkHealScan(l, curtrace, after, searchtrace, timetol,
                            sampratetol, g)
        ELSE IF whence = 0
          THEN LinkHealScan(l, curtrace, after, searchtrace, tol,
                            sampratetol, g)
        ELSE [l |-> LinkHealMerge(l, curtrace, searchtrace, prevtrace,
                                  after, whence, g),
              timetol |-> tol, merged |-> TRUE]

\* mst_heal, the outer loop from curtrace on
RECURSIVE LinkHealFrom(_, _, _, _, _, _)
LinkHealFrom(l, curtrace, timetol, sampratetol, mergings, g) ==
  IF curtrace = 0 THEN [l |-> l, ret |-> mergings]
  ELSE Once(LinkHealScan(l, curtrace, l.traces, l.traces, timetol,
                         sampratetol, g),
            LAMBDA r :
              LinkHealFrom(r.l, r.l.next[curtrace], r.timetol, sampratetol,
                           IF r.merged THEN mergings + 1 ELSE mergings, g))

\* mst_groupsort, the inner loop with the pointers mst and pmst
RECURSIVE LinkSortPass(_, _, _, _)
LinkSortPass(l, mst, pmst, swapped) ==
  IF l.next[mst] = 0 THEN [l |-> l, swapped |-> swapped]
  ELSE IF SwapNeeded(l.mst[mst], l.mst[l.next[mst]])
    THEN LET l1 == IF mst = l.traces /\ pmst = l.traces
                     THEN [l EXCEPT !.traces = l.next[mst]]
                     ELSE [l EXCEPT !.next[pmst] = l.next[mst]]
             p == l1.next[mst]
             l2 == [l1 EXCEPT !.next[mst] = l1.next[l1.next[mst]]]
             l3 == [l2 EXCEPT !.next[p] = mst]
         IN  LinkSortPass(l3, mst, p, swapped + 1)
  ELSE LinkSortPass(l, l.next[mst], mst, swapped)

\* mst_groupsort (mstg): passes until one swaps nothing
RECURSIVE LinkGroupsort(_)
LinkGroupsort(l) ==
  IF l.traces = 0 THEN l
  ELSE Once(LinkSortPass(l, l.traces, l.traces, 0),
            LAMBDA r : IF r.swapped > 0 THEN LinkGroupsort(r.l) ELSE r.l)

(***************************************************************************)
(* The record packer (pack.c).  A record to pack is its header values      *)
(* reclen, encoding ("DEFAULT" for -1), sequence_number, samprate,         *)
(* starttime, numsamples and sampletype; the record has no blockettes but  *)
(* the Blockette 1000 that msr_pack adds.                                  *)
(***************************************************************************)
FSDHLEN == 48
BLKT1000LEN == 8
DEFAULTRECLEN == 4096
MAXSEQNUM == 999999
STEIM2_FRAME_MAX_SAMPLES == 105

\* get_samplesize (sampletype)
GetSamplesize(sampletype) ==
  IF sampletype = "a" THEN 1
  ELSE IF sampletype \in {"i", "f"} THEN 4
  ELSE IF sampletype = "d" THEN 8
  ELSE 0

\* reclen is 2, 4, 8, ... up to the first power of two above MAXRECLEN
RECURSIVE IsReclenPow2(_, _)
IsReclenPow2(reclen, reclenfind) ==
  IF reclenfind > MAXRECLEN THEN FALSE
  ELSE IF 2 * reclenfind = reclen THEN TRUE
  ELSE IsReclenPow2(reclen, 2 * reclenfind)

\* msr_pack_int_16, msr_pack_int_32, msr_pack_float_32 and
\* msr_pack_steim2: the number of samples put into a data area of
\* maxdatabytes bytes: as many as are left and fit.  k is the number of
\* samples whose differences fit the Steim frames.
PackedCount(encoding, remaining, maxdatabytes, k) ==
  IF encoding = "INT16" THEN Min(remaining, maxdatabytes \div 2)
  ELSE IF encoding = "STEIM2"
    THEN Min(remaining,
             Min(k, (maxdatabytes \div 64) * STEIM2_FRAME_MAX_SAMPLES))
  ELSE Min(remaining, maxdatabytes \div 4)

\* msr_pack_data for the encodings INT16, INT32, FLOAT32 and STEIM2 (any
\* other value here is the default case of the switch): -1 for a sample
\* type that does not go with the encoding, otherwise the number of
\* samples put into the record.
MsrPackData(remaining, maxdatabytes, sampletype, encoding, k) ==
  IF encoding \in {"INT16", "INT32", "STEIM2"} /\ sampletype = "i"
    THEN [ret |-> 0,
          packsamples |-> PackedCount(encoding, remaining, maxdatabytes, k)]
  ELSE IF encoding = "FLOAT32" /\ sampletype = "f"
    THEN [ret |-> 0,
          packsamples |-> PackedCount(encoding, remaining, maxdatabytes, k)]
  ELSE [ret |-> 0 - 1, packsamples |-> 0]

\* msr->starttime += (double) packsamples / msr->samprate * HPTMODULUS;
\* for a sample rate of 0 the sum is not a number an hptime_t holds, and
\* the conversion leaves any value (garbage).
AdvanceStart(starttime, packsamples, samprate, garbage) ==
  IF samprate = 0 THEN garbage
  ELSE starttime + (packsamples * HPTMODULUS) \div samprate

\* A successor that runs on past MAXSEQNUM.
NextSeqnumNoWrap(sequence_number) == sequence_number + 1

\* msr_pack: the sequence number of the next record
NextSeqnum(sequence_number) ==
  IF sequence_number >= MAXSEQNUM THEN 1 ELSE sequence_number + 1

\* A packing loop that gives up when the sink fails to write a record.
PackStepStopOnSink(st, maxdatabytes, k, garbage, sinkfail) ==
  LET pd == MsrPackData(st.msr.numsamples - st.total, maxdatabytes,
                        st.msr.sampletype, st.msr.encoding, k)
      total == st.total + pd.packsamples
      rec == [n |-> pd.packsamples, seq |-> st.msr.sequence_number,
              starttime |-> st.msr.starttime]
  IN  IF pd.ret # 0 THEN [st EXCEPT !.ret = 0 - 1]
      ELSE IF Len(st.handed) + 1 = sinkfail
        THEN [st EXCEPT !.ret = 0 - 1, !.handed = Append(@, rec)]
      ELSE [st EXCEPT
              !.handed = Append(@, rec),
              !.total = total,
              !.msr.sequence_number =
                 IF @ >= MAXSEQNUM THEN 1 ELSE @ + 1,
              !.msr.starttime =
                 AdvanceStart(@, pd.packsamples, st.msr.samprate, garbage),
              !.recordcnt = @ + 1,
              !.done = total >= st.msr.numsamples,
              !.hang = pd.packsamples = 0 /\ total < st.msr.numsamples]

\* msr_pack, one pass through the body of the packing loop.  st: the
\* record being packed (msr), totalpackedsamples, recordcnt, the records
\* handed to record_handler so far, and ret = -1 once the loop returned
\* with an error.  The handler returns nothing: sinkfail, the position of
\* a record that the sink fails to write (0: none), has no way back into
\* the loop.  A pass that packs no sample while samples are left leaves
\* everything the next pass depends on as it was: the loop goes on
\* without end (hang).
PackStep(st, maxdatabytes, k, garbage, sinkfail) ==
  LET pd == MsrPackData(st.msr.numsamples - st.total, maxdatabytes,
                        st.msr.sampletype, st.msr.encoding, k)
      total == st.total + pd.packsamples
  IN  IF pd.ret # 0 THEN [st EXCEPT !.ret = 0 - 1]
      ELSE [st EXCEPT
              !.handed = Append(@, [n |-> pd.packsamples,
                                    seq |-> st.msr.sequence_number,
                                    starttime |-> st.msr.starttime]),
              !.total = total,
              !.msr.sequence_number = NextSeqnum(@),
              !.msr.starttime =
                 AdvanceStart(@, pd.packsamples, st.msr.samprate, garbage),
              !.recordcnt = @ + 1,
              !.done = total >= st.msr.numsamples,
              !.hang = pd.packsamples = 0 /\ total < st.msr.numsamples]

\* msr_pack, the defaults and the clean-up of the sequence number
MsrPackDefaults(msr) ==
  [msr EXCEPT
     !.reclen = IF @ = 0 - 1 THEN DEFAULTRECLEN ELSE @,
     !.encoding = IF @ = "DEFAULT" THEN "STEIM2" ELSE @,
     !.sequence_number = IF @ <= 0 \/ @ > MAXSEQNUM THEN 1 ELSE @]

\* msr_pack_header_raw, the loop over the blockette chain: the offset
\* behind the blockettes that fit into maxheaderlen bytes, and how many
\* of them were packed
RECURSIVE PackBlockettes(_, _, _, _)
PackBlockettes(lens, offset, blktcnt, maxheaderlen) ==
  IF lens = <<>> \/ ~(offset < maxheaderlen)
    THEN [offset |-> offset, blktcnt |-> blktcnt]
  ELSE IF offset + 4 + Head(lens) > maxheaderlen
    THEN [offset |-> offset, blktcnt |-> blktcnt]
  ELSE PackBlockettes(Tail(lens), offset + 4 + Head(lens), blktcnt + 1,
                      maxheaderlen)

\* msr_pack_header_raw (msr, rawrec, msr->reclen, ...) for a record whose
\* chain ends with the Blockette 1000: the length of the header, -1 when
\* the Blockette 1000 is packed and reclen is not a power of two
MsrPackHeaderRaw(msr) ==
  LET chain == msr.blkts \o <<BLKT1000LEN - 4>>
      packed == PackBlockettes(chain, FSDHLEN, 0, msr.reclen)
  IN  IF packed.blktcnt = Len(chain) /\ ~IsReclenPow2(msr.reclen, 1)
        THEN 0 - 1
        ELSE packed.offset

\* msr_pack: maxdatabytes and maxsamples for a header of headerlen bytes
MaxDataBytes(msr, headerlen) ==
  IF msr.encoding \in {"STEIM1", "STEIM2"}
    THEN msr.reclen - 64 * ((headerlen + 63) \div 64)
    ELSE msr.reclen - headerlen

MaxSamples(msr, maxdatabytes) ==
  IF msr.encoding = "STEIM2"
    THEN (maxdatabytes \div 64) * STEIM2_FRAME_MAX_SAMPLES
    ELSE maxdatabytes \div GetSamplesize(msr.sampletype)

\* msr_pack, the packing loop
RECURSIVE PackLoop(_, _, _, _, _, _, _)
PackLoop(st, maxdatabytes, maxsamples, flush, k, garbage, sinkfail) ==
  IF \/ st.ret # 0
     \/ st.done
     \/ st.hang
     \/ ~((st.msr.numsamples - st.total) > maxsamples \/ flush)
    THEN st
    ELSE Once(PackStep(st, maxdatabytes, k, garbage, sinkfail),
              LAMBDA n : PackLoop(n, maxdatabytes, maxsamples, flush, k,
                                  garbage, sinkfail))

\* A pack call that reports all samples of the buffer as packed.
MsrPackRecordsCountsBuffer(msr, ps0, flush, k, garbage, sinkfail) ==
  LET headerlen == MsrPackHeaderRaw(msr)
      maxdatabytes == MaxDataBytes(msr, headerlen)
      fin == PackLoop([msr |-> msr, total |-> 0, recordcnt |-> 0,
                       handed |-> <<>>, ret |-> 0, done |-> FALSE,
                       hang |-> FALSE],
                      maxdatabytes, MaxSamples(msr, maxdatabytes), flush, k,
                      garbage, sinkfail)
  IN  IF headerlen = 0 - 1
        THEN [ret |-> 0 - 1, msr |-> msr, packedsamples |-> ps0,
              handed |-> <<>>, allocated |-> TRUE, freed |-> FALSE,
              hang |-> FALSE]
      ELSE [ret |-> IF fin.ret # 0 THEN 0 - 1 ELSE fin.recordcnt,
            msr |-> fin.msr, packedsamples |-> msr.numsamples,
            handed |-> fin.handed, allocated |-> TRUE,
            freed |-> fin.ret = 0, hang |-> fin.hang]

\* msr_pack from the allocation of the record buffer on.  The error
\* returns leave without free (rawrec).
MsrPackRecords(msr, ps0, flush, k, garbage, sinkfail) ==
  LET headerlen == MsrPackHeaderRaw(msr)
      maxdatabytes == MaxDataBytes(msr, headerlen)
      fin == PackLoop([msr |-> msr, total |-> 0, recordcnt |-> 0,
                       handed |-> <<>>, ret |-> 0, done |-> FALSE,
                       hang |-> FALSE],
                      maxdatabytes, MaxSamples(msr, maxdatabytes), flush, k,
                      garbage, sinkfail)
  IN  IF headerlen = 0 - 1
        THEN [ret |-> 0 - 1, msr |-> msr, packedsamples |-> ps0,
              handed |-> <<>>, allocated |-> TRUE, freed |-> FALSE,
              hang |-> FALSE]
      ELSE [ret |-> IF fin.ret # 0 THEN 0 - 1 ELSE fin.recordcnt,
            msr |-> fin.msr, packedsamples |-> fin.total,
            handed |-> fin.handed, allocated |-> TRUE,
            freed |-> fin.ret = 0, hang |-> fin.hang]

\* msr_pack (msr, record_handler, packedsamples, flush, verbose).  ps0 is
\* what *packedsamples held before the call: the returns ahead of the
\* loop do not assign it.
MsrPack(msr0, ps0, flush, k, garbage, sinkfail) ==
  LET msr == MsrPackDefaults(msr0)
      early == [ret |-> 0 - 1, msr |-> msr, packedsamples |-> ps0,
                handed |-> <<>>, allocated |-> FALSE, freed |-> FALSE,
                hang |-> FALSE]
  IN  IF msr.reclen < MINRECLEN \/ msr.reclen > MAXRECLEN THEN early
      ELSE IF msr.numsamples <= 0 THEN early
      ELSE IF GetSamplesize(msr.sampletype) = 0 THEN early
      ELSE MsrPackRecords(msr, ps0, flush, k, garbage, sinkfail)

\* mst_pack, the set-up of the template for the Trace mst
PackTemplate(tmpl, mst, reclen, encoding) ==
  [tmpl EXCEPT !.reclen = reclen, !.encoding = encoding,
               !.starttime = mst.starttime, !.samprate = mst.samprate,
               !.datasamples = "mst->datasamples",
               !.numsamples = mst.numsamples,
               !.sampletype = mst.sampletype]

\* mst_pack, the adjustment of the Trace for packedsamples packed samples
\* and a template advanced to starttime
PackAdjust(mst, packedsamples, starttime) ==
  IF packedsamples > 0
    THEN [mst EXCEPT
            !.starttime = starttime,
            !.data = SubSeq(@, packedsamples + 1, Len(@)),
            !.samplecnt = @ - packedsamples,
            !.numsamples = @ - packedsamples]
    ELSE mst

\* mst_pack (mst, record_handler, reclen, encoding, byteorder,
\* packedsamples, flush, verbose, mstemplate) with a template: the
\* return value, the Trace, *packedsamples, the template after the call
\* and the records handed to record_handler.
MstPack(mst, tmpl, reclen, encoding, ps0, flush, k, garbage) ==
  LET msr == PackTemplate(tmpl, mst, reclen, encoding)
  IN  IF mst.samplecnt # mst.numsamples
        THEN [ret |-> 0 - 1, mst |-> mst, packedsamples |-> ps0,
              msr |-> msr, handed |-> <<>>, leaked |-> FALSE]
      ELSE Once(MsrPack(msr, ps0, flush, k, garbage, 0),
                LAMBDA r :
                  [ret |-> r.ret,
                   mst |-> PackAdjust(mst, r.packedsamples, r.msr.starttime),
                   packedsamples |-> r.packedsamples,
                   msr |-> [r.msr EXCEPT
                              !.starttime = tmpl.starttime,
                              !.samprate = tmpl.samprate,
                              !.datasamples = tmpl.datasamples,
                              !.numsamples = tmpl.numsamples,
                              !.sampletype = tmpl.sampletype],
                   handed |-> r.handed,
                   leaked |-> r.allocated /\ ~r.freed])

\* mst_packgroup, the loop from the Trace at position st.i on.  st:
\* the chain, the template, packedrecords, *packedsamples, tracesamples
\* and the records handed to record_handler.
PackgroupStep(st, reclen, encoding, flush, k, garbage) ==
  IF st.traces[st.i].numsamples <= 0 THEN [st EXCEPT !.i = @ + 1]
  ELSE Once(MstPack(st.traces[st.i], st.msr, reclen, encoding,
                    st.tracesamples, flush, k, garbage),
            LAMBDA r :
              [st EXCEPT
                 !.traces[st.i] = r.mst,
                 !.msr = r.msr,
                 !.packedrecords = @ + r.ret,
                 !.tracesamples = r.packedsamples,
                 !.handed = @ \o r.handed,
                 !.failed = @ \/ r.ret = 0 - 1,
                 !.leaked = @ \/ r.leaked,
                 !.packedsamples =
                    IF st.packedrecords + r.ret = 0 - 1 THEN @
                    ELSE @ + r.packedsamples,
                 !.stop = st.packedrecords + r.ret = 0 - 1,
                 !.i = @ + 1])

RECURSIVE PackgroupLoop(_, _, _, _, _, _)
PackgroupLoop(st, reclen, encoding, flush, k, garbage) ==
  IF st.stop \/ st.i > Len(st.traces) THEN st
  ELSE Once(PackgroupStep(st, reclen, encoding, flush, k, garbage),
            LAMBDA n : PackgroupLoop(n, reclen, encoding, flush, k, garbage))

\* mst_packgroup (mstg, record_handler, reclen, encoding, byteorder,
\* packedsamples, flush, verbose, mstemplate)
MstPackgroup(g0, tmpl, reclen, encoding, flush, k, garbage) ==
  PackgroupLoop([traces |-> g0.traces, msr |-> tmpl, i |-> 1,
                 packedrecords |-> 0, packedsamples |-> 0,
                 tracesamples |-> 0, handed |-> <<>>, failed |-> FALSE,
                 leaked |-> FALSE,
                 stop |-> FALSE],
                reclen, encoding, flush, k, garbage)

(***************************************************************************)
(* The callers of the assembler and of the packer.                         *)
(***************************************************************************)
\* Bounds: calls of the assembler, Traces of a group built by the caller,
\* calls of msr_pack on one template
MaxOps == 3
MaxSegs == 4
MaxPackCalls == 2

\* The value of the sample of a record at position i: the time of the
\* sample in tenths of a second (i for a record without a sample rate)
SampleValue(starttime, samprate, i) ==
  IF samprate = 0 THEN i
  ELSE (starttime + (i - 1) * Period(samprate)) \div (HPTMODULUS \div 10)

\* A record of network "X", location "", channel "Z" as msr_unpack
\* delivers it, with decoded samples or without (decoded)
MkRec(station, samprate, starttime, samplecnt, sampletype, decoded) ==
  [ network |-> <<88>>, station |-> station, location |-> <<>>,
    channel |-> <<90>>, samprate |-> samprate, starttime |-> starttime,
    samplecnt |-> samplecnt,
    numsamples |-> IF decoded THEN samplecnt ELSE 0,
    sampletype |-> sampletype,
    data |-> IF decoded
               THEN [i \in 1..samplecnt |->
                       SampleValue(starttime, samprate, i)]
               ELSE <<>> ]

\* Records of station "A" at 1 Hz with integer samples: one sample at
\* 0 s, 1 s, 2 s, 3 s and 2.2 s, and two samples from 0 s and from 1 s
SeriesRecs ==
  { MkRec(<<65>>, 1, s * HPTMODULUS, 1, "i", TRUE) : s \in 0..3 }
    \cup { MkRec(<<65>>, 1, s * HPTMODULUS, 2, "i", TRUE) : s \in 0..1 }
    \cup { MkRec(<<65>>, 1, 22 * (HPTMODULUS \div 10), 1, "i", TRUE) }

\* Records of station "A" at 1 s: without samples, with a sample that was
\* not decoded, without a sample rate (ASCII), with float samples; at
\* 2 Hz; and of station "AB"
OddRecs ==
  { MkRec(<<65>>, 1, HPTMODULUS, 0, "i", FALSE),
    MkRec(<<65>>, 1, HPTMODULUS, 1, "i", FALSE),
    MkRec(<<65>>, 0, HPTMODULUS, 2, "a", TRUE),
    MkRec(<<65>>, 1, HPTMODULUS, 1, "f", TRUE),
    MkRec(<<65>>, 2, HPTMODULUS, 1, "i", TRUE),
    MkRec(<<65, 66>>, 1, 0, 1, "i", TRUE) }

Recs == SeriesRecs \cup OddRecs

\* The records a caller builds single Traces from: those with samples
\* that start at a whole second
SegRecs ==
  { r \in Recs : r.numsamples = 1 /\ r.starttime % HPTMODULUS = 0 }
    \cup { MkRec(<<65>>, 1, 0, 2, "i", TRUE) }

\* What realloc leaves in the part of a buffer it adds
GarbageSamples == {0 - 1, 0}

\* What the conversion of an infinite double to hptime_t leaves
GarbageTimes == {0 - INFTIME, INFTIME}

\* timetol and sampratetol of the calls: the defaults, no rate check, no
\* time check, and a time tolerance of 100 seconds
TolPairs ==
  { <<0 - 1, 0 - 1>>, <<0 - 1, 0 - 2>>, <<0 - 2, 0 - 1>>,
    <<100 * HPTMODULUS, 0 - 1>> }

HealTolPairs == { <<0 - 1, 0 - 1>>, <<0 - 1, 0 - 2>>, <<0, 0>> }

\* A Trace that holds one record, as mst_addmsrtogroup builds it
TraceOf(rec) == MstAddmsr(NewTrace(rec), rec, 1, 0).mst

\* mst_addmsrtogroup (mstg, msr, timetol, sampratetol)
Insert ==
  /\ tr.ops < MaxOps
  /\ \E rec \in Recs, tol \in TolPairs, g \in GarbageSamples :
       \E res \in {MstAddmsrtogroup(grp, rec, tol[1], tol[2], g)} :
         /\ grp' = res.grp
         /\ tr' = [ ops |-> tr.ops + 1, op |-> "insert", before |-> grp,
                    rec |-> rec, timetol |-> tol[1],
                    sampratetol |-> tol[2], ret |-> res.mst,
                    matched |-> res.matched, whence |-> res.whence,
                    log |-> Append(tr.log, rec),
                    plain |-> /\ tr.plain
                              /\ tol = <<0 - 1, 0 - 1>>
                              /\ res.mst # 0 ]
  /\ UNCHANGED <<rd, io, pk, dec, zs, zc, ch, lk>>

\* mst_addtracetogroup (mstg, mst) for a Trace the caller has built
AddTrace ==
  /\ tr.ops < MaxOps
  /\ \E rec \in SegRecs :
       /\ grp' = MstAddtracetogroup(grp, TraceOf(rec))
       /\ tr' = [ TrInit EXCEPT !.ops = tr.ops + 1, !.op = "addtrace",
                                !.before = grp, !.rec = rec,
                                !.ret = Len(grp.traces) + 1,
                                !.plain = FALSE ]
  /\ UNCHANGED <<rd, io, pk, dec, zs, zc, ch, lk>>

\* mst_heal (mstg, timetol, sampratetol)
Heal ==
  /\ tr.ops < MaxOps
  /\ \E tol \in HealTolPairs, g \in GarbageSamples :
       \E res \in {MstHeal(grp, tol[1], tol[2], g)} :
         /\ grp' = res.grp
         /\ tr' = [ TrInit EXCEPT !.ops = tr.ops + 1, !.op = "heal",
                                  !.before = grp, !.timetol = tol[1],
                                  !.sampratetol = tol[2], !.ret = res.ret,
                                  !.plain = FALSE ]
  /\ UNCHANGED <<rd, io, pk, dec, zs, zc, ch, lk>>

\* mst_groupsort (mstg)
Sort ==
  /\ tr.ops < MaxOps
  /\ grp' = [grp EXCEPT !.traces = MstGroupsort(@)]
  /\ tr' = [ TrInit EXCEPT !.ops = tr.ops + 1, !.op = "sort",
                           !.before = grp, !.plain = FALSE ]
  /\ UNCHANGED <<rd, io, pk, dec, zs, zc, ch, lk>>

\* mst_packgroup (mstg, record_handler, reclen, encoding, byteorder,
\* packedsamples, flush, verbose, mstemplate) with the template pk.msr
PackGroup ==
  /\ tr.ops < MaxOps
  /\ \E reclen \in {MINRECLEN, MINRECLEN + 1},
        encoding \in {"INT32", "STEIM2"}, flush \in BOOLEAN,
        k \in {1, STEIM2_FRAME_MAX_SAMPLES}, garbage \in GarbageTimes :
       \E res \in {MstPackgroup(grp, pk.msr, reclen, encoding, flush, k,
                                garbage)} :
         /\ grp' = [grp EXCEPT !.traces = res.traces]
         /\ tr' = [ TrInit EXCEPT !.ops = tr.ops + 1, !.op = "pack",
                                  !.before = grp,
                                  !.ret = res.packedrecords,
                                  !.plain = FALSE ]
         /\ pk' = [ msr |-> res.msr, calls |-> pk.calls,
                    call |-> "mst_packgroup", before |-> pk.msr,
                    flush |-> flush, sinkfail |-> 0,
                    ret |-> res.packedrecords,
                    packedsamples |-> res.packedsamples,
                    handed |-> res.handed, failed |-> res.failed,
                    allocated |-> res.handed # <<>> \/ res.leaked,
                    leaked |-> res.leaked,
                    prevseq |-> IF pk.handed = <<>> THEN pk.prevseq
                                ELSE pk.handed[Len(pk.handed)].seq ]
  /\ UNCHANGED <<rd, io, dec, zs, zc, ch, lk>>

NextTrace ==
  \/ Insert
  \/ AddTrace
  \/ Heal
  \/ Sort
  \/ PackGroup

SpecTrace == Init /\ [][NextTrace]_vars

\* A group of up to MaxSegs different Traces that the caller has built
\* and added
InitGroup ==
  /\ rd = ReaderInit
  /\ io = IoInit
  /\ \E n \in 0..MaxSegs :
       \E recs \in [1..n -> SegRecs] :
         /\ \A i, j \in 1..n : i # j => recs[i] # recs[j]
         /\ grp = [ traces |-> [i \in 1..n |-> TraceOf(recs[i])],
                   numtraces |-> n, overrun |-> FALSE ]
  /\ tr = [TrInit EXCEPT !.plain = FALSE]
  /\ pk = PkInit
  /\ dec = DecInit(NoEnv)
  /\ zs = ZsInit
  /\ zc = ZcInit
  /\ ch = ChInit
  /\ lk = LkInit

NextGroup ==
  \/ Heal
  \/ Sort

SpecGroup == InitGroup /\ [][NextGroup]_vars

\* The records and Traces handed to the calls on the chain
LinkRecs ==
  { r \in Recs : r.starttime \in {0, HPTMODULUS, 2 * HPTMODULUS} }

\* A call on the chain was made
LinkCalled(l, op, ret) ==
  [l EXCEPT !.ops = lk.ops + 1, !.op = op, !.ret = ret]

\* mst_addmsrtogroup (mstg, msr, 1, -1.0, -1.0)
LinkInsert ==
  /\ lk.ops < MaxLinkOps
  /\ Cardinality(DOMAIN lk.next) < MaxNodes
  /\ \E rec \in LinkRecs, g \in GarbageSamples :
       \E res \in {LinkAddmsrtogroup(lk, rec, g)} :
         lk' = LinkCalled(res.l, "insert", res.ret)
  /\ UNCHANGED <<rd, io, grp, tr, pk, dec, zs, zc, ch>>

\* mst_addtracetogroup (mstg, mst) for a Trace the caller has built
LinkAddTrace ==
  /\ lk.ops < MaxLinkOps
  /\ Cardinality(DOMAIN lk.next) < MaxNodes
  /\ \E rec \in SegRecs :
       \E n \in {FreeNode(lk)} :
         lk' = LinkCalled(LinkAddtracetogroup(LinkAlloc(lk, n, TraceOf(rec)),
                                              n),
                          "addtrace", n)
  /\ UNCHANGED <<rd, io, grp, tr, pk, dec, zs, zc, ch>>

\* mst_heal (mstg, timetol, sampratetol)
LinkHeal ==
  /\ lk.ops < MaxLinkOps
  /\ \E tol \in HealTolPairs, g \in GarbageSamples :
       \E res \in {LinkHealFrom(lk, lk.traces, tol[1], tol[2], 0, g)} :
         lk' = LinkCalled(res.l, "heal", res.ret)
  /\ UNCHANGED <<rd, io, grp, tr, pk, dec, zs, zc, ch>>

\* mst_groupsort (mstg)
LinkSort ==
  /\ lk.ops < MaxLinkOps
  /\ lk' = LinkCalled(LinkGroupsort(lk), "sort", 0)
  /\ UNCHANGED <<rd, io, grp, tr, pk, dec, zs, zc, ch>>

NextLink ==
  \/ LinkInsert
  \/ LinkAddTrace
  \/ LinkHeal
  \/ LinkSort

SpecLink == Init /\ [][NextLink]_vars

(***************************************************************************)
(* Properties of the assembler.                                            *)
(***************************************************************************)
\* The end time of a record with samples and a sample rate: its start
\* time plus (samplecnt - 1) sample periods
RecEnd(rec) == rec.starttime + (rec.samplecnt - 1) * Period(rec.samprate)

\* seg is of the source of rec and its sample rate is tolerable for rec:
\* |1 - rate(rec) / rate(seg)| < 0.0001
Tolerable(seg, rec) ==
  /\ SameSource(seg, rec)
  /\ seg.samprate # 0
  /\ 10000 * Abs(seg.samprate - rec.samprate) < seg.samprate

\* rec starts one sample period after the end of seg, within half a period
AbutsEnd(seg, rec) ==
  /\ Tolerable(seg, rec)
  /\ 2 * Abs(rec.starttime - seg.endtime - Period(rec.samprate))
       <= Period(rec.samprate)

\* rec ends one sample period before the start of seg, within half a
\* period
AbutsStart(seg, rec) ==
  /\ Tolerable(seg, rec)
  /\ 2 * Abs(seg.starttime - RecEnd(rec) - Period(rec.samprate))
       <= Period(rec.samprate)

\* The segment that holds only rec
Only(rec) ==
  [ network |-> rec.network, station |-> rec.station,
    location |-> rec.location, channel |-> rec.channel,
    samprate |-> rec.samprate, starttime |-> rec.starttime,
    endtime |-> RecEnd(rec), samplecnt |-> rec.samplecnt,
    numsamples |-> rec.numsamples, sampletype |-> rec.sampletype,
    data |-> rec.data ]

\* The last call was an insert with default tolerances of a record with
\* samples and a sample rate, and every segment the record abuts holds
\* samples of the record's type
DefaultInsert ==
  /\ tr.op = "insert"
  /\ tr.timetol = 0 - 1 /\ tr.sampratetol = 0 - 1
  /\ tr.rec.samplecnt > 0 /\ tr.rec.samprate > 0
  /\ \A i \in 1..Len(tr.before.traces) :
       (AbutsEnd(tr.before.traces[i], tr.rec)
          \/ AbutsStart(tr.before.traces[i], tr.rec))
         => tr.before.traces[i].sampletype = tr.rec.sampletype

\* The collection held one segment, holding only the first record
\* inserted, when the second record was inserted
TwoRecords ==
  /\ tr.op = "insert"
  /\ Len(tr.log) = 2
  /\ tr.log[1].samplecnt > 0 /\ tr.log[1].samprate > 0
  /\ tr.before.traces = <<Only(tr.log[1])>>

\* C4: with default tolerances, an insert merges the record into the first
\* segment of its source, with a tolerable sample rate, that the record
\* abuts within half a sample period: at the end (append: the segment ends
\* where the record ends and holds the record's samples after its own) or
\* at the start (prepend: the segment starts where the record starts); the
\* segment's sample count grows by the record's and no other segment
\* changes.  When the record abuts no segment, a segment holding only the
\* record is added at the end of the list.  So a record that starts
\* exactly one period after the end of a one-record segment gives one
\* segment with the sum of the counts, and a record that starts a gap of
\* 1.2 periods later than that (the gap being the time beyond the
\* expected next sample, as mst_findadjacent measures it) gives two
\* segments.
C4_InsertMergesWhenAbutting ==
  DefaultInsert =>
    LET b == tr.before.traces
        a == grp.traces
        r == tr.rec
        fits == { i \in 1..Len(b) : AbutsEnd(b[i], r) \/ AbutsStart(b[i], r) }
        f == CHOOSE i \in fits : \A j \in fits : i <= j
    IN  /\ fits = {} => a = Append(b, Only(r))
        /\ fits # {} =>
             /\ Len(a) = Len(b)
             /\ \A j \in 1..Len(b) : j # f => a[j] = b[j]
             /\ a[f].samplecnt = b[f].samplecnt + r.samplecnt
             /\ AbutsEnd(b[f], r) =>
                  /\ a[f].starttime = b[f].starttime
                  /\ a[f].endtime = RecEnd(r)
                  /\ a[f].data = b[f].data \o r.data
             /\ ~AbutsEnd(b[f], r) =>
                  /\ a[f].starttime = r.starttime
                  /\ a[f].endtime = b[f].endtime
        /\ (TwoRecords /\ Tolerable(b[1], r)
              /\ r.starttime = b[1].endtime + Period(r.samprate)) =>
             (Len(a) = 1 /\ a[1].samplecnt = b[1].samplecnt + r.samplecnt)
        /\ (TwoRecords /\ Tolerable(b[1], r)
              /\ 10 * (r.starttime - b[1].endtime - Period(r.samprate))
                   = 12 * Period(r.samprate)) =>
             Len(a) = 2

\* C4 witness: a record that starts exactly one period after the end of
\* the only segment has been appended to it
C4_Witness ==
  /\ DefaultInsert
  /\ TwoRecords
  /\ Len(grp.traces) = 1
  /\ tr.rec.starttime
       = tr.before.traces[1].endtime + Period(tr.rec.samprate)
  /\ grp.traces[1].samplecnt = 2
  /\ grp.traces[1].data = tr.before.traces[1].data \o tr.rec.data

\* The last call was an insert of a record with zero samples or a zero
\* sample rate for which a matching segment was found
NoCoverageInsert ==
  /\ tr.op = "insert"
  /\ tr.matched
  /\ tr.rec.samplecnt = 0 \/ tr.rec.samprate = 0

\* C5 as stated: the insert of a record with zero samples or a zero sample
\* rate that matches a segment increases the segment's sample count by the
\* record's and leaves the segment's buffer as it is.
C5_CountBumped ==
  NoCoverageInsert =>
    /\ tr.ret # 0
    /\ grp.traces[tr.ret].samplecnt
         = tr.before.traces[tr.ret].samplecnt + tr.rec.samplecnt
    /\ grp.traces[tr.ret].data = tr.before.traces[tr.ret].data

\* C5 as the code has it: the insert of a record with zero samples or a
\* zero sample rate that matches a segment returns that segment and
\* leaves the whole collection as it is: sample count, buffer and times.
C5_SegmentUnchanged ==
  NoCoverageInsert => (tr.ret # 0 /\ grp = tr.before)

\* C5 witness: a record without a sample rate but with samples matched a
\* segment, which kept its sample count
C5_Witness ==
  /\ NoCoverageInsert
  /\ tr.rec.samprate = 0 /\ tr.rec.samplecnt > 0
  /\ tr.ret # 0
  /\ grp.traces[tr.ret].samplecnt = tr.before.traces[tr.ret].samplecnt

\* a and b are mergeable under the tolerances of the last call: same
\* source, sample rates within the tolerance, and the gap between the end
\* of a and the start of b within the time tolerance
Mergeable(a, b) ==
  /\ SameSource(a, b)
  /\ a.samprate # 0
  /\ IF tr.sampratetol = 0 - 1
       THEN 10000 * Abs(a.samprate - b.samprate) < a.samprate
       ELSE tr.sampratetol = 0 - 2
              \/ Abs(a.samprate - b.samprate) <= tr.sampratetol
  /\ IF tr.timetol = 0 - 1
       THEN 2 * Abs(b.starttime - a.endtime - Period(a.samprate))
              <= Period(a.samprate)
       ELSE Abs(b.starttime - a.endtime - Period(a.samprate)) <= tr.timetol

\* C6: when heal has returned (here: called with default tolerances on
\* segments that all hold integer samples), no two distinct segments of
\* the collection are mergeable.
C6_HealLeavesNoMergeable ==
  (/\ tr.op = "heal" /\ tr.timetol = 0 - 1 /\ tr.sampratetol = 0 - 1
   /\ \A i \in 1..Len(tr.before.traces) :
        tr.before.traces[i].sampletype = "i") =>
    \A i, j \in 1..Len(grp.traces) :
      i # j => ~Mergeable(grp.traces[i], grp.traces[j])

\* The collection after the records of recs have been inserted in their
\* order with default tolerances
RECURSIVE InsertAll(_, _, _)
InsertAll(g0, recs, g) ==
  IF recs = <<>> THEN g0
  ELSE InsertAll(MstAddmsrtogroup(g0, Head(recs), 0 - 1, 0 - 1, g).grp,
                 Tail(recs), g)

\* The start time, end time and samples of the segments after the records
\* of recs were inserted into an empty collection, then sort, then heal
Assembled(recs, g) ==
  LET ins == InsertAll(TraceInit, recs, g)
      srt == [ins EXCEPT !.traces = MstGroupsort(@)]
      hld == MstHeal(srt, 0 - 1, 0 - 1, g).grp.traces
  IN  [i \in 1..Len(hld) |->
         <<hld[i].starttime, hld[i].endtime, hld[i].data>>]

\* The arrival orders of the records of recs
Orders(recs) ==
  { [i \in 1..Len(recs) |-> recs[p[i]]] :
      p \in Permutations(1..Len(recs)) }

\* C7: the records inserted so far into the empty collection (here:
\* records with integer samples and a sample rate) give, after sort and
\* heal, the same segments (start, end, samples) in whatever order they
\* arrive.
C7_OrderIndependent ==
  (/\ tr.plain /\ tr.op = "insert"
   /\ \A i \in 1..Len(tr.log) :
        /\ tr.log[i].numsamples > 0 /\ tr.log[i].samprate > 0
        /\ tr.log[i].sampletype = "i") =>
    \A o \in Orders(tr.log) :
      \A g \in GarbageSamples :
        Assembled(o, g) = Assembled(tr.log, g)

\* a is in order before its successor b
Ordered(a, b) ==
  LET c == Strcmp(MstSrcname(a), MstSrcname(b))
  IN  \/ c < 0
      \/ c = 0 /\ a.samprate < b.samprate
      \/ c = 0 /\ a.samprate = b.samprate /\ a.starttime < b.starttime
      \/ c = 0 /\ a.samprate = b.samprate /\ a.starttime = b.starttime
           /\ a.endtime >= b.endtime

\* C8: after sort every pair of adjacent segments is in order: by source
\* name, then by sample rate ascending, then by start time ascending,
\* then by end time descending.
C8_SortedAfterSort ==
  tr.op = "sort" =>
    \A i \in 1..(Len(grp.traces) - 1) :
      Ordered(grp.traces[i], grp.traces[i + 1])

\* C8 witness: sort has put in order a list of four segments that was out
\* of order by name, by rate and by end time
C8_Witness ==
  /\ tr.op = "sort"
  /\ Len(grp.traces) = 4
  /\ grp.traces # tr.before.traces
  /\ \E i \in 1..3 :
       Strcmp(MstSrcname(grp.traces[i]), MstSrcname(grp.traces[i + 1])) < 0
  /\ \E i \in 1..3 :
       /\ grp.traces[i].starttime = grp.traces[i + 1].starttime
       /\ grp.traces[i].samprate = grp.traces[i + 1].samprate
       /\ SameSource(grp.traces[i], grp.traces[i + 1])
       /\ grp.traces[i].endtime > grp.traces[i + 1].endtime
  /\ \A i \in 1..3 : Ordered(grp.traces[i], grp.traces[i + 1])

\* C9: every segment of the collection has start time <= end time.
C9_StartNotAfterEnd ==
  \A i \in 1..Len(grp.traces) :
    grp.traces[i].starttime <= grp.traces[i].endtime

(***************************************************************************)
(* The caller of msr_pack: it sets up a template record once and packs     *)
(* sample buffers with it.                                                 *)
(***************************************************************************)
PackReclens ==
  {0 - 1, MINRECLEN \div 2, MINRECLEN, MINRECLEN + 1, 2 * MINRECLEN}

PackEncodings == {"DEFAULT", "INT16", "INT32", "FLOAT32", "STEIM2"}

PackSeqnums == {0, 1, MAXSEQNUM - 1, MAXSEQNUM, MAXSEQNUM + 1}

\* The numbers of samples handed to a call: none, and one more than one
\* or two records of MINRECLEN bytes hold of 4-byte samples
PackCounts ==
  {0, (MINRECLEN - FSDHLEN - BLKT1000LEN) \div 4 + 1,
   2 * ((MINRECLEN - FSDHLEN - BLKT1000LEN) \div 4) + 1}

\* The numbers of samples whose differences fit the Steim frames
SteimFits == {STEIM2_FRAME_MAX_SAMPLES \div 3, 3 * STEIM2_FRAME_MAX_SAMPLES}

\* The blockettes of a template besides the Blockette 1000: none, or a
\* Blockette 500 (200 bytes with its header)
PackChains == {<<>>, <<196>>}

\* msr_init and the caller's assignments to the template
SetTemplate ==
  /\ pk.call = "none"
  /\ \E reclen \in PackReclens, encoding \in PackEncodings,
        seq \in PackSeqnums, sampletype \in {"i", "f"}, samprate \in {0, 1},
        blkts \in PackChains :
       pk' = [PkInit EXCEPT
                !.call = "template",
                !.msr = [MsrInit EXCEPT
                           !.reclen = reclen, !.encoding = encoding,
                           !.sequence_number = seq,
                           !.sampletype = sampletype,
                           !.samprate = samprate,
                           !.blkts = blkts]]
  /\ UNCHANGED <<rd, io, grp, tr, dec, zs, zc, ch, lk>>

\* msr_pack (msr, record_handler, &packedsamples, flush, verbose) on a
\* buffer of numsamples samples, with a sink that fails to write the
\* record at position sinkfail (0: none).  A call whose loop goes on
\* without end does not return: it is left as running, with the records
\* it handed over before the loop began to repeat itself.
PackRecords ==
  /\ pk.call \notin {"none", "msr_pack running"}
  /\ pk.calls < MaxPackCalls
  /\ \E numsamples \in PackCounts, flush \in BOOLEAN, sinkfail \in 0..2,
        k \in SteimFits, garbage \in GarbageTimes :
       \E res \in {MsrPack([pk.msr EXCEPT !.numsamples = numsamples],
                           pk.packedsamples, flush, k, garbage, sinkfail)} :
         pk' = [ msr |-> res.msr, calls |-> pk.calls + 1,
                 call |-> IF res.hang THEN "msr_pack running"
                          ELSE "msr_pack",
                 before |-> [pk.msr EXCEPT !.numsamples = numsamples],
                 flush |-> flush, sinkfail |-> sinkfail, ret |-> res.ret,
                 packedsamples |-> res.packedsamples,
                 handed |-> res.handed, failed |-> res.ret = 0 - 1,
                 allocated |-> res.allocated,
                 leaked |-> res.allocated /\ ~res.freed,
                 prevseq |-> IF pk.handed = <<>> THEN pk.prevseq
                             ELSE pk.handed[Len(pk.handed)].seq ]
  /\ UNCHANGED <<rd, io, grp, tr, dec, zs, zc, ch, lk>>

NextPack ==
  \/ SetTemplate
  \/ PackRecords

SpecPack == Init /\ [][NextPack]_vars

\* The samples in the records of handed
RECURSIVE SumSamples(_)
SumSamples(handed) ==
  IF handed = <<>> THEN 0 ELSE Head(handed).n + SumSamples(Tail(handed))

\* During the last call of msr_pack the sink was handed the record that
\* it failed to write
SinkFailed ==
  /\ pk.call = "msr_pack"
  /\ pk.sinkfail > 0
  /\ Len(pk.handed) >= pk.sinkfail

\* C10 as stated: when the sink fails on a record, the pack call stops
\* with that record and returns an error, and neither the record nor its
\* samples are counted.
C10_SinkFailureStopsPack ==
  SinkFailed =>
    /\ pk.ret = 0 - 1
    /\ Len(pk.handed) = pk.sinkfail
    /\ pk.packedsamples
         = SumSamples(SubSeq(pk.handed, 1, pk.sinkfail - 1))

\* C10 as the code has it: the sink returns nothing to msr_pack, so the
\* call goes on after a record that the sink failed to write; it returns
\* the number of records handed to the sink, the failed one included, and
\* counts the samples of all of them, which with flush are all the samples
\* of the buffer.
C10_SinkFailureUnseen ==
  SinkFailed =>
    /\ pk.ret = Len(pk.handed)
    /\ pk.packedsamples = SumSamples(pk.handed)
    /\ pk.flush => pk.packedsamples = pk.before.numsamples

\* C10 witness: the sink failed to write the first of three records, and
\* the call returned 3 with all samples counted
C10_Witness ==
  /\ SinkFailed
  /\ pk.sinkfail = 1
  /\ Len(pk.handed) = 3
  /\ pk.ret = 3
  /\ pk.packedsamples = pk.before.numsamples


(***************************************************************************)
(* The caller of the ZIP writer: it writes entries in one call or streams  *)
(* them (begin, data, ..., end), gives an entry up when a call for it      *)
(* fails, and calls zs_finish once.                                        *)
(***************************************************************************)
\* Bounds: calls of the ZIP writer, calls in which write() fails
MaxZipCalls == 4
MaxWriteFailures == 1

\* Sizes of the data handed to a call: 100 bytes, 3 GiB, and for an entry
\* written in one call 5 GiB
ZipSizes == {Bytes(100), Big(3, 0)}
OneShotSizes == ZipSizes \cup {Big(5, 0)}

\* Compression methods passed: ZS_STORE, ZS_DEFLATE and an unknown one
ZipMethods == {ZS_STORE, ZS_DEFLATE, 9}

\* What write() may do in the next call
WriteOutcomes ==
  IF zc.failures < MaxWriteFailures THEN {"ok", "fail", "short", "later"}
  ELSE {"ok"}

\* The caller's record of a call that returned res
ZcAfter(call, res, open, size) ==
  [ calls |-> zc.calls + 1, call |-> call,
    ret |-> IF call = "finish" THEN "none" ELSE res.ret,
    code |-> IF call = "finish" THEN res.ret ELSE 0,
    status |-> res.status, open |-> open, before |-> zs, size |-> size,
    failures |-> zc.failures + (IF res.status # 0 THEN 1 ELSE 0),
    finished |-> zc.finished \/ call = "finish" ]

MayZip == zc.calls < MaxZipCalls /\ ~zc.finished

\* zs_writeentry (zstream, entry, entrysize, name, modtime, method, &ws)
ZipWriteEntry ==
  /\ MayZip /\ zc.open = 0
  /\ \E entrysize \in OneShotSizes, name \in BOOLEAN, method \in ZipMethods,
        w \in WriteOutcomes :
     \E ratio \in (IF method = ZS_DEFLATE THEN {1, 2} ELSE {1}),
        failat \in (IF w = "ok" THEN {1} ELSE {1, 2}) :
       \E res \in {ZsWriteentry(zs, entrysize, name, method, ratio,
                                IF failat = 1 THEN w ELSE "ok",
                                IF failat = 2 THEN w ELSE "ok")} :
         /\ zs' = res.z
         /\ zc' = ZcAfter("writeentry", res, 0, entrysize)
  /\ UNCHANGED <<rd, io, grp, tr, pk, dec, ch, lk>>

\* zs_entrybegin (zstream, name, modtime, method, &ws)
ZipEntryBegin ==
  /\ MayZip /\ zc.open = 0
  /\ \E name \in BOOLEAN, method \in ZipMethods, w \in WriteOutcomes :
       \E res \in {ZsEntrybegin(zs, name, method, w)} :
         /\ zs' = res.z
         /\ zc' = ZcAfter("begin", res,
                          IF res.ret = "zentry" THEN Len(res.z.entries)
                          ELSE 0,
                          Bytes(0))
  /\ UNCHANGED <<rd, io, grp, tr, pk, dec, ch, lk>>

\* zs_entrydata (zstream, zentry, entry, entrysize, final, &ws)
ZipEntryData ==
  /\ MayZip /\ zc.open # 0
  /\ \E entrysize \in ZipSizes, w \in WriteOutcomes :
     \E ratio \in (IF zs.entries[zc.open].CompressionMethod = ZS_DEFLATE
                    THEN {1, 2} ELSE {1}) :
       \E res \in {ZsEntrydata(zs, zc.open, entrysize, ratio, w)} :
         /\ zs' = res.z
         /\ zc' = ZcAfter("data", res,
                          IF res.ret = "zentry" THEN zc.open ELSE 0,
                          entrysize)
  /\ UNCHANGED <<rd, io, grp, tr, pk, dec, ch, lk>>

\* zs_entryend (zstream, zentry, &ws)
ZipEntryEnd ==
  /\ MayZip /\ zc.open # 0
  /\ \E w \in WriteOutcomes :
       \E res \in {ZsEntryend(zs, zc.open, w)} :
         /\ zs' = res.z
         /\ zc' = ZcAfter("end", res, 0, Bytes(0))
  /\ UNCHANGED <<rd, io, grp, tr, pk, dec, ch, lk>>

\* zs_finish (zstream, &ws)
ZipFinish ==
  /\ MayZip /\ zc.open = 0
  /\ \E w \in WriteOutcomes :
     \E failat \in (IF w = "ok" THEN {1} ELSE 1..(Len(zs.entries) + 3)) :
       \E res \in {ZsFinish(zs, failat, w)} :
         /\ zs' = res.z
         /\ zc' = ZcAfter("finish", res, 0, Bytes(0))
  /\ UNCHANGED <<rd, io, grp, tr, pk, dec, ch, lk>>

NextZip ==
  \/ ZipWriteEntry
  \/ ZipEntryBegin
  \/ ZipEntryData
  \/ ZipEntryEnd
  \/ ZipFinish

SpecZip == Init /\ [][NextZip]_vars


(***************************************************************************)
(* mseed2sac writing a ZIP archive (src/mseed2sac.c): main hands every     *)
(* Trace to writesac, does not look at what it returns, and calls          *)
(* zs_finish when all Traces were handed over.                             *)
(***************************************************************************)
\* The sample counts of the Traces written: 25 samples make 100 bytes,
\* 100000 samples more than one chunk of the deflater
SacSamples == {25, 100000}

\* The compression methods of the options -z and -z0
SacZipMethods == {ZS_DEFLATE, ZS_STORE}

\* writebinarysac (sh, fdata, npts, outfile) with zipfile set.  failat is
\* the call of the ZIP writer (1: begin, 2: header, 3: samples, 4: end) in
\* which write() does w.
WriteBinarySac(z, npts, zipmethod, ratio, failat, w) ==
  LET b == ZsEntrybegin(z, TRUE, zipmethod, IF failat = 1 THEN w ELSE "ok")
      zentry == Len(b.z.entries)
      h == ZsEntrydata(b.z, zentry, Bytes(SACHEADERLEN), ratio,
                       IF failat = 2 THEN w ELSE "ok")
      d == ZsEntrydata(h.z, zentry, Bytes(npts * 4), ratio,
                       IF failat = 3 THEN w ELSE "ok")
      n == ZsEntryend(d.z, zentry, IF failat = 4 THEN w ELSE "ok")
  IN  IF b.ret = "NULL" THEN ZsResult(b.z, 0 - 1, b.status)
      ELSE IF h.ret = "NULL" THEN ZsResult(h.z, 0 - 1, h.status)
      ELSE IF d.ret = "NULL" THEN ZsResult(d.z, 0 - 1, d.status)
      ELSE IF n.ret = "NULL" THEN ZsResult(n.z, 1, n.status)
      ELSE ZsResult(n.z, 0, 0)

\* main: writesac (mst) for the next Trace of the group; the value it
\* returns is dropped, the caller's record keeps it for the properties
WriteSac ==
  /\ MayZip
  /\ \E npts \in SacSamples, zipmethod \in SacZipMethods,
        w \in WriteOutcomes :
     \E ratio \in (IF zipmethod = ZS_DEFLATE THEN {1, 2} ELSE {1}),
        failat \in (IF w = "ok" THEN {1} ELSE 1..4) :
       \E res \in {WriteBinarySac(zs, npts, zipmethod, ratio, failat, w)} :
         /\ zs' = res.z
         /\ zc' = [ZcAfter("writesac", res, 0, Bytes(npts * 4)) EXCEPT
                     !.ret = "none", !.code = res.ret]
  /\ UNCHANGED <<rd, io, grp, tr, pk, dec, ch, lk>>

NextArchive ==
  \/ WriteSac
  \/ ZipFinish

SpecArchive == Init /\ [][NextArchive]_vars


(***************************************************************************)
(* Properties of the packer.                                               *)
(***************************************************************************)

\* The record length the last call of msr_pack worked with: the default
\* for -1
PackReclen ==
  IF pk.before.reclen = 0 - 1 THEN DEFAULTRECLEN ELSE pk.before.reclen

\* The record lengths the policy allows: 2^7 = 128 up to 2^20 = 1048576
ReclenAllowed(reclen) == \E e \in 7..20 : reclen = Pow2(e)

\* C11: a call of msr_pack whose record length is not a power of two in
\* [128, 1048576] returns an error, has allocated no record buffer and has
\* handed no record to the sink.
C11_BadReclenBeforeAlloc ==
  (pk.call = "msr_pack" /\ ~ReclenAllowed(PackReclen)) =>
    /\ pk.ret = 0 - 1
    /\ ~pk.allocated
    /\ pk.handed = <<>>

\* The sequence number that follows seq in the cycle 1, ..., 999999, 1
SeqAfter(seq) == IF seq = MAXSEQNUM THEN 1 ELSE seq + 1

\* C12: across the records that the calls of msr_pack on one template
\* hand to the sink, the sequence number advances by one per record with 1
\* after 999999: the first record of a call follows the last record of the
\* calls before it, each further record follows the one before it, and
\* every sequence number lies in 1..999999.
C12_SequenceNumbersAdvance ==
  pk.call = "msr_pack" =>
    /\ \A i \in 1..Len(pk.handed) :
         pk.handed[i].seq >= 1 /\ pk.handed[i].seq <= MAXSEQNUM
    /\ \A i \in 1..(Len(pk.handed) - 1) :
         pk.handed[i + 1].seq = SeqAfter(pk.handed[i].seq)
    /\ (pk.handed # <<>> /\ pk.prevseq # 0) =>
         pk.handed[1].seq = SeqAfter(pk.prevseq)

\* C12 witness: the second call on a template starts with the sequence
\* number 999999, which follows the last record of the first call, and
\* goes on with 1 and 2
C12_Witness ==
  /\ pk.call = "msr_pack"
  /\ pk.calls = 2
  /\ pk.prevseq = MAXSEQNUM - 1
  /\ Len(pk.handed) = 3
  /\ pk.handed[1].seq = MAXSEQNUM
  /\ pk.handed[2].seq = 1
  /\ pk.handed[3].seq = 2


(***************************************************************************)
(* The caller of msr_unpack: a process with some environment that decodes  *)
(* raw records one after the other.                                        *)
(***************************************************************************)
\* Bound: calls of msr_unpack in one process
MaxDecodes == 3

\* Texts of a byte order variable and numbers of an encoding variable
ByteorderTexts == {"unset", "0", "1", "2"}
EncodingNums == {Unset, EnvNum(0 - 5), EnvNum(3), EnvNum(99)}

Envs ==
  [ UNPACK_HEADER_BYTEORDER : ByteorderTexts,
    UNPACK_DATA_BYTEORDER : ByteorderTexts,
    UNPACK_DATA_FORMAT : EncodingNums,
    UNPACK_DATA_FORMAT_FALLBACK : EncodingNums ]

\* Raw records: with a Blockette 1000 (STEIM2, big-endian), without one,
\* and a chunk that is no data record; 100 samples each
RawRecs ==
  { [indicator |-> TRUE, encoding |-> 11, byteorder |-> 1, samplecnt |-> 100],
    [indicator |-> TRUE, encoding |-> 0 - 1, byteorder |-> 0 - 1,
     samplecnt |-> 100],
    [indicator |-> FALSE, encoding |-> 0 - 1, byteorder |-> 0 - 1,
     samplecnt |-> 0] }

\* A process starts with its environment and nothing read from it
InitDecode ==
  /\ rd = ReaderInit
  /\ io = IoInit
  /\ grp = TraceInit
  /\ tr = TrInit
  /\ pk = PkInit
  /\ dec \in { DecInit(env) : env \in Envs }
  /\ zs = ZsInit
  /\ zc = ZcInit
  /\ ch = ChInit
  /\ lk = LkInit

\* msr_unpack (record, reclen, &msr, dataflag, verbose)
Decode ==
  /\ dec.calls < MaxDecodes
  /\ \E rec \in RawRecs, reclen \in {MINRECLEN \div 4, 2 * MINRECLEN},
        dataflag \in BOOLEAN :
       \E res \in {MsrUnpackCall(dec, rec, reclen, dataflag)} :
         dec' = [res EXCEPT !.calls = dec.calls + 1,
                            !.firstret = IF dec.calls = 0 THEN res.ret
                                         ELSE dec.firstret]
  /\ UNCHANGED <<rd, io, grp, tr, pk, zs, zc, ch, lk>>

NextDecode == Decode

SpecDecode == InitDecode /\ [][NextDecode]_vars

(***************************************************************************)
(* Properties of the decoder as the reader calls it.                       *)
(***************************************************************************)

\* The last read call decoded a record whose Blockette 1000 declares a
\* record length that is not the length the record was read and decoded
\* with
LengthMismatch ==
  /\ io.call = "read"
  /\ rd.msr = "rec"
  /\ rd.msrblkt # 0
  /\ rd.msrblkt # rd.readlen

\* The last call was a read of a reclen-0 session that had locked the
\* record length in before
LaterRead == io.call = "read" /\ io.sess /\ io.recs > 0

\* C15: in a session that passes reclen 0, once the first record's length
\* is detected no later read call goes into the detection: the read
\* length stays the detected one, a record that is returned has that
\* length, and the call has read a whole number (at least one) of records
\* of that length (besides the info sections of a packed file).
C15_DetectedLengthLocked ==
  LaterRead =>
    /\ ~io.detected
    /\ io.locked # 0
    /\ rd.readlen = io.locked
    /\ io.ret = "MS_NOERROR" =>
         /\ rd.msrreclen = io.locked
         /\ rd.packinfolen = 0 =>
              io.adv >= io.locked /\ io.adv % io.locked = 0

\* C15 witness: the second read of a session returned the second record
\* of the detected 512 bytes
C15_Witness ==
  /\ LaterRead
  /\ io.ret = "MS_NOERROR"
  /\ io.locked = 2 * MINRECLEN
  /\ io.adv = io.locked
  /\ rd.recordcount = 2

\* C13: a read that decodes a record whose Blockette 1000 declares a
\* record length different from the expected one returns WrongLength, not
\* NoError with the record.
C13_MismatchIsWrongLength == LengthMismatch => io.ret = "MS_WRONGLENGTH"


(***************************************************************************)
(* Properties of the decoder's options.                                    *)
(***************************************************************************)
\* An option of the environment holds an invalid value: a byte order that
\* is not "0" or "1", an encoding outside 0..33
InvalidOption(env) ==
  \/ env.UNPACK_HEADER_BYTEORDER \notin {"unset", "0", "1"}
  \/ env.UNPACK_DATA_BYTEORDER \notin {"unset", "0", "1"}
  \/ env.UNPACK_DATA_FORMAT.set
       /\ (env.UNPACK_DATA_FORMAT.val < 0 \/ env.UNPACK_DATA_FORMAT.val > 33)
  \/ env.UNPACK_DATA_FORMAT_FALLBACK.set
       /\ (env.UNPACK_DATA_FORMAT_FALLBACK.val < 0
             \/ env.UNPACK_DATA_FORMAT_FALLBACK.val > 33)

\* C14: in a process whose environment holds an invalid option, the first
\* call of msr_unpack fails and no call ever delivers a decoded record.
C14_InvalidOptionNeverDecodes ==
  (InvalidOption(dec.env) /\ dec.calls > 0) =>
    dec.firstret = "NULL" /\ dec.ret = "NULL"


(***************************************************************************)
(* Properties of the ZIP writer.                                           *)
(***************************************************************************)
\* The output holds a ZIP64 structure: a Central Directory Header with a
\* ZIP64 extra field, or the ZIP64 End of Central Directory Record or
\* Locator
Zip64Present ==
  \E i \in 1..Len(zs.out) :
    \/ zs.out[i].kind = "central" /\ zs.out[i].zip64
    \/ zs.out[i].kind \in {"z64end", "z64loc"}

\* The offset of some entry's Local File Header or of the Central
\* Directory, as the stream has recorded them, exceeds 0xFFFFFFFF
OffsetExceeds ==
  \/ \E e \in 1..Len(zs.entries) : Exceeds32(zs.entries[e].LocalHeaderOffset)
  \/ Exceeds32(zs.CentralDirectoryOffset)

\* C16: in the output of a zs_finish that succeeded, ZIP64 structures are
\* present exactly when the offset of some entry's local header or of the
\* central directory exceeds 0xFFFFFFFF: a central header carries the
\* extra field exactly when its entry's offset exceeds it, and the ZIP64
\* end record and locator are written exactly when the central
\* directory's offset exceeds it.
C16_Zip64IffOffsetExceeds ==
  (zc.call = "finish" /\ zc.code = 0) =>
    /\ Zip64Present <=> OffsetExceeds
    /\ \A i \in 1..Len(zs.out) :
         zs.out[i].kind = "central" =>
           (zs.out[i].zip64
              <=> Exceeds32(zs.entries[zs.out[i].e].LocalHeaderOffset))
    /\ (\E i \in 1..Len(zs.out) : zs.out[i].kind = "z64end")
         <=> Exceeds32(zs.CentralDirectoryOffset)
    /\ (\E i \in 1..Len(zs.out) : zs.out[i].kind = "z64loc")
         <=> Exceeds32(zs.CentralDirectoryOffset)

\* C16 witness: zs_finish succeeded for three entries of which the third
\* starts beyond 0xFFFFFFFF; its central header alone carries the extra
\* field, and the ZIP64 end record is written
C16_Witness ==
  /\ zc.call = "finish" /\ zc.code = 0
  /\ Len(zs.entries) = 3
  /\ Exceeds32(zs.entries[3].LocalHeaderOffset)
  /\ ~Exceeds32(zs.entries[2].LocalHeaderOffset)
  /\ \E i \in 1..Len(zs.out) :
       zs.out[i].kind = "central" /\ zs.out[i].e = 3 /\ zs.out[i].zip64
  /\ \E i \in 1..Len(zs.out) :
       zs.out[i].kind = "central" /\ zs.out[i].e = 2 /\ ~zs.out[i].zip64
  /\ \E i \in 1..Len(zs.out) : zs.out[i].kind = "z64end"

\* C17: no entry of more than 0xFFFFFFFF bytes is recorded: no entry of
\* the list has a size beyond the limit, and the size fields written in a
\* data description or central header are the sizes of the entry, not a
\* cut of them.
C17_NoEntryBeyondLimit ==
  /\ \A e \in 1..Len(zs.entries) :
       /\ ~Exceeds32(zs.entries[e].UncompressedSize)
       /\ ~Exceeds32(zs.entries[e].CompressedSize)
  /\ \A i \in 1..Len(zs.out) :
       zs.out[i].kind \in {"dd", "central"} =>
         /\ zs.out[i].usize = zs.entries[zs.out[i].e].UncompressedSize
         /\ zs.out[i].csize = zs.entries[zs.out[i].e].CompressedSize


(***************************************************************************)
(* Properties of the packing of Traces.                                    *)
(***************************************************************************)
\* The last call was mst_packgroup and it called mst_pack, with the
\* template, for a Trace
PackedWithTemplate ==
  /\ pk.call = "mst_packgroup"
  /\ \E i \in 1..Len(tr.before.traces) : tr.before.traces[i].numsamples > 0

\* The values that mst_pack is to preserve in the template msr
Preserved(msr) ==
  <<msr.starttime, msr.samprate, msr.datasamples, msr.numsamples,
    msr.sampletype>>

\* C18: when Traces are packed with a record template of the caller, the
\* template's start time, sample rate, sample buffer, sample count and
\* sample type are after the call what they were before it, whatever the
\* call returns.
C18_TemplatePreserved ==
  PackedWithTemplate => Preserved(pk.msr) = Preserved(pk.before)


\* C19: mst_packgroup returns -1 whenever mst_pack fails for one of the
\* Traces, however many records the Traces before it have produced.
C19_FailedSegmentIsError ==
  (pk.call = "mst_packgroup" /\ pk.failed) => pk.ret = 0 - 1


(***************************************************************************)
(* Properties of the splice.                                               *)
(***************************************************************************)
\* The last call was an insert that spliced the decoded samples of its
\* record into the segment it returned
Spliced ==
  /\ tr.op = "insert"
  /\ tr.matched
  /\ tr.ret # 0
  /\ tr.whence \in {1, 2}
  /\ tr.rec.numsamples > 0
  /\ tr.rec.samprate # 0

\* C20: a splice keeps the order and the content of the samples: after
\* an append the segment holds its previous samples followed by the
\* record's and ends at the record's end time; after a prepend it holds
\* the record's samples followed by its previous ones and starts at the
\* record's start time, whatever the lengths of the two.
C20_SplicePreservesSamples ==
  Spliced =>
    /\ tr.whence = 1 =>
         /\ grp.traces[tr.ret].data
              = tr.before.traces[tr.ret].data \o tr.rec.data
         /\ grp.traces[tr.ret].endtime = MsrEndtime(tr.rec)
    /\ tr.whence = 2 =>
         /\ grp.traces[tr.ret].data
              = tr.rec.data \o tr.before.traces[tr.ret].data
         /\ grp.traces[tr.ret].starttime = tr.rec.starttime


(***************************************************************************)
(* Properties of the record-length detection.                              *)
(***************************************************************************)
\* The last call went into the detection of the record length of a
\* stream from which no record was returned yet
Probed == io.call = "read" /\ io.detected /\ io.recs = 0

Packed == pk.call = "msr_pack" /\ pk.ret >= 0

\* The number of samples that one record of the last call holds at most
Capacity ==
  LET msr == MsrPackDefaults(pk.before)
  IN  MaxSamples(msr, MaxDataBytes(msr, MsrPackHeaderRaw(msr)))

\* C22: when msr_pack returns a number of records, *packedsamples is not
\* above the number of samples of the buffer; with flush it is that
\* number, without flush at most the samples of one record are left; the
\* value returned is the number of calls of record_handler, and
\* *packedsamples the number of samples in the records handed to it.
C22_PackCounts ==
  Packed =>
    /\ pk.packedsamples <= pk.before.numsamples
    /\ pk.flush => pk.packedsamples = pk.before.numsamples
    /\ ~pk.flush => pk.before.numsamples - pk.packedsamples <= Capacity
    /\ pk.ret = Len(pk.handed)
    /\ pk.packedsamples = SumSamples(pk.handed)

\* C22 witness: a call without flush handed over two full records and
\* left one sample of the buffer
C22_Witness ==
  /\ Packed
  /\ ~pk.flush
  /\ pk.ret = 2
  /\ Len(pk.handed) = 2
  /\ pk.before.numsamples - pk.packedsamples = 1



(***************************************************************************)
(* Properties of the blockette chain loops.                                *)
(***************************************************************************)
\* The walk of msr_unpack is running or has run
Walking == ch.fn = "msr_unpack"

\* What holds at every point of a walk: every next-offset that was
\* followed is greater than the offset of its blockette and not beyond
\* the record length, no offset was read twice, each blockette read lies
\* in the record, and a walk that was left has delivered the record
WalkIsOrdered ==
  /\ \A p \in ch.followed : p[2] > p[1] /\ p[2] <= ch.reclen
  /\ ~ch.repeated
  /\ \A o \in ch.visited : o < ch.reclen
  /\ 4 * Cardinality(ch.visited) < ch.reclen
  /\ ch.done => ch.ret = "msr"
  /\ ch.warned => ch.done

\* C23: the blockette-chain walk of msr_unpack follows a next-offset only
\* when it is greater than the offset of the blockette it stands in and
\* not beyond the record length; otherwise the walk stops with a warning
\* and the record is still returned.  No offset is read twice, so the
\* number of blockettes read is bounded by the record length, and every
\* walk is left.
C23_WalkTerminates ==
  /\ [](Walking => WalkIsOrdered)
  /\ (Walking ~> ch.done)

\* C23 witness: a walk that followed the next-offset 248 of the blockette
\* at 48, found there a Blockette 1000 whose next-offset points back to
\* 48, logged it and left the loop with the record
C23_Witness ==
  /\ Walking
  /\ ch.done
  /\ ch.warned
  /\ ch.ret = "msr"
  /\ ch.followed = {<<48, 248>>}
  /\ ch.visited = {48, 248}
  /\ ch.chain[248].next = 48
  /\ ch.Blkt1000

\* The scan of ms_find_reclen is running or has run
Scanning == ch.fn = "ms_find_reclen"

\* C25: the chain scan of ms_find_reclen ends on every buffer, also when
\* a next-offset points to its own blockette or back: the scan reads no
\* offset twice (the buffer does not change, so a scan that is at an
\* offset for the second time repeats what it did from there), and every
\* scan is left.
C25_ScanTerminates ==
  /\ [](Scanning => ~ch.repeated)
  /\ (Scanning ~> ch.done)


(***************************************************************************)
(* Properties of the packing loop.                                         *)
(***************************************************************************)
\* C26: every pass of the packing loop of msr_pack puts at least one
\* sample into the record it hands over, so that every call on an
\* accepted template returns after finitely many records, also when the
\* record length and the blockette chain leave a data area without room
\* for a sample.
C26_PackLoopConsumes ==
  pk.call \in {"msr_pack", "msr_pack running"} =>
    /\ \A i \in 1..Len(pk.handed) : pk.handed[i].n >= 1
    /\ pk.call # "msr_pack running"


(***************************************************************************)
(* Properties of the links of the Trace chain.                             *)
(***************************************************************************)
\* The walk from mst along next ends at a null pointer within fuel steps
\* and passes allocated Traces only
RECURSIVE ChainEnds(_, _, _)
ChainEnds(l, mst, fuel) ==
  IF mst = 0 THEN TRUE
  ELSE IF fuel = 0 \/ mst \notin DOMAIN l.next THEN FALSE
  ELSE ChainEnds(l, l.next[mst], fuel - 1)

\* C27: after every sequence of mst_addmsrtogroup, mst_addtracetogroup,
\* mst_heal and mst_groupsort on a group, the walk from traces along next
\* ends at a null pointer (the chain has no cycle), and numtraces is the
\* number of Traces on that walk.
C27_CounterMatchesChain ==
  /\ ChainEnds(lk, lk.traces, MaxNodes)
  /\ lk.numtraces = Len(ChainFrom(lk, lk.traces, MaxNodes + 1))

\* C27 witness: a heal that merged one Trace away and left two Traces in
\* the group
C27_Witness ==
  /\ lk.op = "heal"
  /\ lk.ret = 1
  /\ lk.numtraces = 2
  /\ Len(ChainFrom(lk, lk.traces, MaxNodes + 1)) = 2


(***************************************************************************)
(* Properties of the samples in a heal.                                    *)
(***************************************************************************)
\* The samples held by the Traces of a chain
RECURSIVE HeldSamples(_)
HeldSamples(traces) ==
  IF traces = <<>> THEN 0
  ELSE Head(traces).numsamples + HeldSamples(Tail(traces))

\* C28: mst_heal loses no samples: the Traces of the group hold as many
\* samples after the call as before it, also when two Traces that fit
\* together differ in sample type; a Trace leaves the chain only when
\* its samples were copied into the Trace that took it up.
C28_HealKeepsSamples ==
  tr.op = "heal" =>
    HeldSamples(grp.traces) = HeldSamples(tr.before.traces)


(***************************************************************************)
(* Properties of the order of the ZIP archive mseed2sac writes.            *)
(***************************************************************************)
\* The structures of the central directory and of the end of the archive
IsDirectory(item) == item.kind \in {"central", "z64end", "z64loc", "end"}

\* Between the positions i and j of the stream the data descriptor of the
\* entry whose local header is at i went out in full, with nothing but
\* data of that entry before it
EntryClosed(out, i, j) ==
  \E k \in (i + 1)..(j - 1) :
    /\ out[k].kind = "dd" /\ out[k].e = out[i].e /\ out[k].full
    /\ \A m \in (i + 1)..(k - 1) :
         out[m].kind = "data" /\ out[m].e = out[i].e

\* C24: in the byte stream of a run that writes a ZIP archive, also a run
\* in which a write fails, a local header that went out in full is
\* followed by the body and the data descriptor of its entry before the
\* local header of another entry or the central directory goes out; the
\* central directory goes out once, after all entries.
C24_EntriesInOrder ==
  LET out == zs.out
  IN  /\ \A i, j \in 1..Len(out) :
           (/\ i < j
            /\ out[i].kind = "local" /\ out[i].full
            /\ out[j].kind = "local" \/ IsDirectory(out[j]))
             => EntryClosed(out, i, j)
      /\ \A i, j \in 1..Len(out) :
           (i < j /\ IsDirectory(out[i])) => IsDirectory(out[j])
      /\ Cardinality({i \in 1..Len(out) : out[i].kind = "end"}) <= 1
      /\ (zc.finished /\ zc.code = 0) =>
           \E i \in 1..Len(out) : out[i].kind = "end" /\ out[i].full


(***************************************************************************)
(* Properties of the offsets the ZIP writer records.                       *)
(***************************************************************************)
\* The number of bytes that reached the descriptor before the structure
\* at position i of the stream
RECURSIVE BytesBefore(_, _)
BytesBefore(out, i) ==
  IF i <= 1 THEN Bytes(0)
  ELSE BigAdd(BytesBefore(out, i - 1), out[i - 1].len)

\* C29: the running offset of the ZIP writer is the number of bytes that
\* reached the output descriptor, also after a write that failed or was
\* short; the local header offset recorded for an entry and the offset of
\* the central directory are the byte positions of these structures in
\* the output.
C29_OffsetIsPosition ==
  /\ zs.WriteOffset = zs.bytes
  /\ \A i \in 1..Len(zs.out) :
       zs.out[i].kind = "local" =>
         zs.entries[zs.out[i].e].LocalHeaderOffset = BytesBefore(zs.out, i)
  /\ \A i \in 1..Len(zs.out) :
       (IsDirectory(zs.out[i]) /\ \A j \in 1..(i - 1) : ~IsDirectory(zs.out[j]))
         => zs.CentralDirectoryOffset = BytesBefore(zs.out, i)


(***************************************************************************)
(* Properties of the entries the central directory lists.                  *)
(***************************************************************************)
\* The local header, the body and the data descriptor of the entry e went
\* out in full
WholeEntry(out, e) ==
  /\ \E k \in 1..Len(out) :
       out[k].kind = "local" /\ out[k].e = e /\ out[k].full
  /\ \E k \in 1..Len(out) :
       out[k].kind = "dd" /\ out[k].e = e /\ out[k].full
  /\ \A k \in 1..Len(out) :
       (out[k].e = e /\ out[k].kind \in {"local", "data", "dd"})
         => out[k].full

\* C30: an entry that zs_finish lists in the central directory, and counts
\* in the end of central directory record, is one whose local header, body
\* and data descriptor were all written; an entry whose begin, data or end
\* call failed is not listed.
C30_ListedEntriesAreWhole ==
  LET out == zs.out
      whole == {e \in 1..Len(zs.entries) : WholeEntry(out, e)}
  IN  /\ \A i \in 1..Len(out) :
           out[i].kind = "central" => out[i].e \in whole
      /\ \A i \in 1..Len(out) :
           out[i].kind = "end" => out[i].count = Cardinality(whole)

=============================================================================
